---- MODULE Spec2Model ----
(***************************************************************************)
(* tap-mailchimp: the orchestrator (MailChimpTap.pour), the stream runner  *)
(* (TapStream / TapItemStream), the state store (TapState) and the record  *)
(* iteration of the client (MailChimp.iter_items / iter_all and the bulk   *)
(* export generators), as one state machine.  One process runs at a time;  *)
(* a later process is constructed from the last snapshot the previous one  *)
(* wrote to the state sink.  A second specification, PagSpec, drives a     *)
(* paginator on its own (MailChimp.iter_items and the earlier              *)
(* mailchimp_gen) over a remote collection, failing fetches included.  A   *)
(* third, NormSpec, applies the watermark calculator, the campaign         *)
(* listings and the normalization functions (ApiVersionTool, utils, the    *)
(* streams' _write_record) to the lines the remote can return.             *)
(***************************************************************************)
EXTENDS Integers, Sequences, FiniteSets, TLC

\* ------------------------------------------------------------------ bounds
MaxRuns == 2            \* processes started one after the other
MaxClock == 150         \* the wall clock stops advancing here (seconds)
TimeStep == 70          \* granularity of the wall clock (seconds)
MaxItemRecords == 2     \* records of one parent item on the remote side
MaxFaults == 1          \* fetches / normalizations that raise, over all runs
MaxTotal == 3           \* items of the collection a paginator is driven over
MaxCount == 3           \* page sizes a paginator is driven with
MaxFailures == 5        \* fetches that fail while a paginator is driven
MaxCalls == 8           \* fetches a paginator is followed for
MaxLag == 1             \* days of lag a config file asks for
MinuteStep == 60        \* granularity of the wall clock where time is counted in minutes

\* ------------------------------------------------------- program constants
SYNC_STATE_INTERVAL == 60
DEFAULT_LAG == 3
MAX_RETRIES == 5

\* ------------------------------------------------------------ stream names
lists == "lists"
list_members == "list_members"
campaigns == "campaigns"
email_activity_reports == "email_activity_reports"

RootStreams == {lists, campaigns}
ItemStreams == {list_members, email_activity_reports}

\* Python None of a string-valued attribute (currently_syncing, item_id)
Null == "null"

\* ------------------------------------------------------------- timestamps
\* None, a datetime object, and the ISO-8601 string of a datetime
NONE == [kind |-> "none", t |-> 0]

Datetime(t) == [kind |-> "datetime", t |-> t]

isoformat(v) == [kind |-> "str", t |-> v.t]

parse(v) == [kind |-> "datetime", t |-> v.t]

\* the last_run / current_run property setters
set_run(value) ==
    IF value.kind = "none" \/ value.kind = "datetime" THEN value ELSE parse(value)

\* ---------------------------------------------------------------- dicts
EmptyDict == <<>>

DictGet(d, k, default) == IF k \in DOMAIN d THEN d[k] ELSE default

DictSet(d, k, v) == (k :> v) @@ d

\* ------------------------------------------------------ TapState bookmarks
get_bookmark(b, stream_id, key, default) ==
    DictGet(DictGet(b, stream_id, EmptyDict), key, default)

write_bookmark(b, stream_id, key, val) ==
    DictSet(b, stream_id, DictSet(DictGet(b, stream_id, EmptyDict), key, val))

HasOffset(b, stream_id) ==
    stream_id \in DOMAIN b /\ "offset" \in DOMAIN b[stream_id]

get_offset(b, stream_id, default) == get_bookmark(b, stream_id, "offset", default)

set_offset(b, stream_id, offset_key, offset_value) ==
    write_bookmark(b, stream_id, "offset",
                   DictSet(get_offset(b, stream_id, EmptyDict), offset_key, offset_value))

clear_offset(b, stream_id) == write_bookmark(b, stream_id, "offset", EmptyDict)

get_ids(b, stream_id) == get_bookmark(b, stream_id, "ids", {})

\* mutant: the new id replaces the ids recorded so far
add_id_replaces(b, stream_id, id) == write_bookmark(b, stream_id, "ids", {id})

add_id(b, stream_id, id) ==
    write_bookmark(b, stream_id, "ids", get_ids(b, stream_id) \cup {id})

get_id_offset(b, stream_id, id, default) ==
    IF HasOffset(b, stream_id) /\ id \in DOMAIN b[stream_id]["offset"]
    THEN b[stream_id]["offset"][id]
    ELSE default

set_id_offset(b, stream_id, id, offset_key, offset_value) ==
    set_offset(b, stream_id, id,
               DictSet(get_id_offset(b, stream_id, id, EmptyDict), offset_key, offset_value))

get_done(b, stream_id) == get_bookmark(b, stream_id, "done", FALSE)

set_done(b, stream_id, done) ==
    IF done
    THEN clear_offset(write_bookmark(b, stream_id, "done", done), stream_id)
    ELSE write_bookmark(b, stream_id, "done", done)

get_id_done(b, stream_id, id) ==
    DictGet(get_id_offset(b, stream_id, id, EmptyDict), "done", FALSE)

\* mutant: marking one item done replaces the whole offset mapping
set_id_done_clears(b, stream_id, id, done) ==
    write_bookmark(b, stream_id, "offset", DictSet(EmptyDict, id, DictSet(EmptyDict, "done", done)))

set_id_done(b, stream_id, id, done) ==
    IF done
    THEN set_offset(b, stream_id, id, DictSet(EmptyDict, "done", done))
    ELSE set_id_offset(b, stream_id, id, "done", done)

get_count(b, stream_id) == DictGet(get_offset(b, stream_id, EmptyDict), "count", 0)

set_count(b, stream_id, count) == write_bookmark(b, stream_id, "count", count)

get_id_count(b, stream_id, id) ==
    DictGet(get_id_offset(b, stream_id, id, EmptyDict), "count", 0)

set_id_count(b, stream_id, id, count) ==
    set_id_offset(b, stream_id, id, "count", count)

\* ------------------------------------------------------------------ state
VARIABLES
    now,        \* time.time(), in seconds
    cfg,        \* args.config, the dict main() builds the TapConfig from
    config,     \* TapConfig
    remote,     \* what the remote listing / export capabilities return
    persisted,  \* the last snapshot handed to singer.write_state
    state,      \* the TapState object of the running process
    pc,         \* position of the process inside MailChimpTap.pour
    is_error,   \* local of MailChimpTap.pour
    sched,      \* position of itertools.chain(*stream_gens)
    stream,     \* the stream object the pour loop holds
    iter,       \* the generator returned by stream._iter_records()
    record,     \* the record the stream's for loop holds
    sink,       \* messages written to the output sink by this process
    run,        \* number of the running process
    loaded,     \* the TapState as constructed at the start of this process
    scheduled,  \* streams the chain has yielded to the pour loop in this process
    attempted,  \* streams whose pour() was called by this process
    raised,     \* streams whose pour() raised in this process
    faults,     \* fetches / normalizations that raised so far
    pag,        \* a paginator (MailChimp.iter_items or mailchimp_gen) driven on its own
    norm        \* the last call of a normalization function: its input and outcome

vars == <<now, cfg, config, remote, persisted, state, pc, is_error, sched, stream,
          iter, record, sink, run, loaded, scheduled, attempted, raised, faults,
          pag, norm>>

\* ------------------------------------------------------------------ inputs
ListIds == {"a", "b"}
CampaignIds == {"x"}

\* records of a parent item: "m1", "m2", ...
ItemRecordIds == <<"m1", "m2", "m3">>

ItemRecords(n) == SubSeq(ItemRecordIds, 1, n)

\* status of an exported member (Status._available)
Statuses == <<"subscribed", "unsubscribed", "cleaned">>

MemberStatus(m) == IF m = "m2" THEN "unsubscribed" ELSE "subscribed"

\* values of the start_date entry of the config file: no entry, '', '*', and
\* a date string
ABSENT == [kind |-> "absent", t |-> 0]

EMPTY == [kind |-> "empty", t |-> 0]

STAR == [kind |-> "star", t |-> 0]

DateStr(t) == [kind |-> "str", t |-> t]

DEFAULT_START_DATE == STAR

DEFAULT_KEEP_LINKS == FALSE

DEFAULT_INTERESTS_ARRAY == TRUE

DEFAULT_MERGE_FIELDS_ARRAY == TRUE

\* the config file; max_run_time 0 stands for no entry (None)
Cfg(max_run_time, count, start, use_export) ==
    [max_run_time |-> max_run_time, count |-> count, start_date |-> start,
     use_export |-> use_export]

\* dateutil.parser.parse raises ValueError on '' and on '*'
parse_start_date(d) == IF d.kind = "str" THEN parse(d) ELSE NONE

\* TapConfig.__init__: use_export is the default of both export switches
TapConfig(c) ==
    [max_run_time |-> c.max_run_time,
     count |-> c.count,
     lag |-> DictGet(c, "lag", DEFAULT_LAG),
     start_date |-> parse_start_date(IF c.start_date.kind = "absent"
                                      THEN DEFAULT_START_DATE
                                      ELSE c.start_date),
     keep_links |-> DictGet(c, "keep_links", DEFAULT_KEEP_LINKS),
     interests_array |-> DictGet(c, "interests_array", DEFAULT_INTERESTS_ARRAY),
     merge_fields_array |-> DictGet(c, "merge_fields_array", DEFAULT_MERGE_FIELDS_ARRAY),
     use_list_member_export |-> DictGet(c, "use_list_member_export", c.use_export),
     use_email_activity_export |-> DictGet(c, "use_email_activity_export", c.use_export)]

\* one of the three ways a config file gives no start date
NoStartDate(m, e) == IF m = 1 THEN STAR ELSE IF e THEN EMPTY ELSE ABSENT

Cfgs ==
    UNION {{Cfg(m, 1, NoStartDate(m, e), e), Cfg(m, 1, DateStr(-10), e)} :
              m \in {0, 1}, e \in BOOLEAN}

\* create_time and send_time of the campaigns on the remote side
CampaignTimes ==
    [c \in {"x", "y", "z"} |->
        CASE c = "x" -> [create_time |-> 1000, send_time |-> 1000]
          [] c = "y" -> [create_time |-> -1000, send_time |-> -5]
          [] c = "z" -> [create_time |-> -1000000, send_time |-> -1000000]]

Remotes ==
    [lists : {<<"a", "b">>},
     campaigns : {<<"x">>},
     members : {[l \in ListIds |-> ItemRecords(IF l = "a" THEN MaxItemRecords ELSE 1)]},
     activity : {[c \in CampaignIds |-> ItemRecords(1)]}]

\* ---------------------------------------------------------------- TapState
TapState(snapshot, t) ==
    [last_run |-> set_run(DictGet(snapshot, "last_run", NONE)),
     current_run |-> set_run(DictGet(snapshot, "current_run", Datetime(t))),
     currently_syncing |-> DictGet(snapshot, "currently_syncing", Null),
     bookmarks |-> DictGet(snapshot, "bookmarks", EmptyDict),
     current_session |-> t,
     last_sync_state |-> t]

\* mutant: the bookmarks survive the finalization
finalize_run_keeps_bookmarks(s) ==
    [s EXCEPT !.last_run = set_run(s.current_run),
              !.current_run = NONE,
              !.currently_syncing = Null]

finalize_run(s) ==
    [s EXCEPT !.last_run = set_run(s.current_run),
              !.current_run = NONE,
              !.currently_syncing = Null,
              !.bookmarks = EmptyDict]

session_time(s) == now - s.current_session

\* __json__ followed by the isoformat loop of write_state
Serialized(v) == IF v.kind = "datetime" THEN isoformat(v) ELSE v

Snapshot(s) ==
    [last_run |-> Serialized(s.last_run),
     current_run |-> Serialized(s.current_run),
     currently_syncing |-> s.currently_syncing,
     bookmarks |-> s.bookmarks]

write_state(s) ==
    /\ persisted' = Snapshot(s)
    /\ state' = [s EXCEPT !.last_sync_state = now]

\* mutant: the state is written as soon as the interval has elapsed
sync_at_interval(s, force) ==
    IF force \/ (now - s.last_sync_state >= SYNC_STATE_INTERVAL)
    THEN write_state(s)
    ELSE state' = s /\ UNCHANGED persisted

sync(s, force) ==
    IF force \/ (now - s.last_sync_state > SYNC_STATE_INTERVAL)
    THEN write_state(s)
    ELSE state' = s /\ UNCHANGED persisted

\* ------------------------------------------------------------------ utils
\* mutant: the configured start date wins over last_run
tap_start_date_config_first(c, s) ==
    IF c.start_date.kind # "none" THEN c.start_date ELSE s.last_run

tap_start_date(c, s) == IF s.last_run.kind # "none" THEN s.last_run ELSE c.start_date

\* -------------------------------------------------------------- TapStream
IsItem(st) == st.stream_id \in ItemStreams

\* mutant: an item stream consults the stream-level done flag
is_done_stream_level(st, s) == get_done(s.bookmarks, st.stream_id)

is_done(st, s) ==
    IF IsItem(st)
    THEN get_id_done(s.bookmarks, st.stream_id, st.item_id)
    ELSE get_done(s.bookmarks, st.stream_id)

Offset(st, s) ==
    IF IsItem(st)
    THEN get_id_count(s.bookmarks, st.stream_id, st.item_id)
    ELSE get_count(s.bookmarks, st.stream_id)

start_date(s) == tap_start_date(config, s)

\* mutant: the lag is added
lag_date_adds_lag(s) ==
    IF start_date(s).kind = "none"
    THEN NONE
    ELSE Datetime(start_date(s).t + config.lag * 86400)

lag_date(s) ==
    IF start_date(s).kind = "none"
    THEN NONE
    ELSE Datetime(start_date(s).t - config.lag * 86400)

\* mutant: an item's count runs ahead of the records written
update_state_counts_ahead(st, s, rec) ==
    IF IsItem(st)
    THEN [s EXCEPT !.bookmarks =
            set_id_count(s.bookmarks, st.stream_id, st.item_id,
                         2 + get_id_count(s.bookmarks, st.stream_id, st.item_id))]
    ELSE LET b1 == add_id(s.bookmarks, st.stream_id, rec)
         IN [s EXCEPT !.bookmarks =
               set_count(b1, st.stream_id, Cardinality(get_ids(b1, st.stream_id)))]

update_state(st, s, rec) ==
    IF IsItem(st)
    THEN [s EXCEPT !.bookmarks =
            set_id_count(s.bookmarks, st.stream_id, st.item_id,
                         1 + get_id_count(s.bookmarks, st.stream_id, st.item_id))]
    ELSE LET b1 == add_id(s.bookmarks, st.stream_id, rec)
         IN [s EXCEPT !.bookmarks =
               set_count(b1, st.stream_id, Cardinality(get_ids(b1, st.stream_id)))]

set_stream_done(st, s) ==
    IF IsItem(st)
    THEN [s EXCEPT !.bookmarks = set_id_done(s.bookmarks, st.stream_id, st.item_id, TRUE)]
    ELSE [s EXCEPT !.bookmarks = set_done(s.bookmarks, st.stream_id, TRUE)]

\* ------------------------------------------------------------ _iter_records
\* A generator over the remote: the listings (or export responses) still to
\* be read, the running offset into the first of them, the items of the page
\* already fetched, and the number of items one fetch returns (config.count
\* for MailChimp.iter_all, one line for the streamed export responses).
Generator(srcs, offset, size) ==
    [srcs |-> srcs, offset |-> offset, buf |-> <<>>, size |-> size]

NoGenerator == Generator(<<>>, 0, 1)

ExportOf(members, status) ==
    SelectSeq(members, LAMBDA m : MemberStatus(m) = status)

\* mutant: the statuses are gone through from the last to the first
export_records_cleaned_first(st) ==
    IF st.stream_id = list_members
    THEN Generator([i \in 1..3 |-> ExportOf(remote.members[st.item_id], Statuses[4 - i])],
                   0, 1)
    ELSE Generator(<<remote.activity[st.item_id]>>, 0, 1)

\* the bulk-export branch of an item stream's _iter_records
export_records(st) ==
    IF st.stream_id = list_members
    THEN Generator([i \in 1..3 |-> ExportOf(remote.members[st.item_id], Statuses[i])],
                   0, 1)
    ELSE Generator(<<remote.activity[st.item_id]>>, 0, 1)

\* the API v3 branch of an item stream's _iter_records
api_records(st, s) ==
    IF st.stream_id = list_members
    THEN Generator(<<remote.members[st.item_id]>>, Offset(st, s), config.count)
    ELSE Generator(<<remote.activity[st.item_id]>>, Offset(st, s), config.count)

\* the campaigns the remote side lists for the filters of one listing
\* (the keyword arguments CampaignStream passes to iter_items)
ListCampaigns(args) ==
    SelectSeq(remote.campaigns,
              LAMBDA c :
                /\ "since_create_time" \in DOMAIN args
                      => CampaignTimes[c].create_time >= parse(args.since_create_time).t
                /\ "since_send_time" \in DOMAIN args
                      => CampaignTimes[c].send_time >= parse(args.since_send_time).t)

\* the same filter on both listings
campaign_listings_no_lag(s) ==
    IF lag_date(s).kind = "none"
    THEN <<EmptyDict>>
    ELSE <<"since_create_time" :> isoformat(start_date(s)),
           "since_send_time" :> isoformat(start_date(s))>>

\* CampaignStream._iter_records: the listings it asks for, in their order
campaign_listings(s) ==
    IF lag_date(s).kind = "none"
    THEN <<EmptyDict>>
    ELSE <<"since_create_time" :> isoformat(start_date(s)),
           "since_send_time" :> isoformat(lag_date(s))>>

iter_records(st, s) ==
    CASE st.stream_id = lists ->
            Generator(<<remote.lists>>, Offset(st, s), config.count)
      [] st.stream_id = campaigns ->
            Generator([i \in 1..Len(campaign_listings(s)) |->
                          ListCampaigns(campaign_listings(s)[i])],
                      0, config.count)
      [] st.stream_id = list_members ->
            IF config.use_list_member_export
            THEN export_records(st)
            ELSE api_records(st, s)
      [] st.stream_id = email_activity_reports ->
            IF config.use_email_activity_export
            THEN export_records(st)
            ELSE api_records(st, s)

Min(a, b) == IF a < b THEN a ELSE b

\* api.all(offset=offset, count=size)
Page(src, offset, size) == SubSeq(src, offset + 1, Min(offset + size, Len(src)))

\* next() of the generator when every fetch it makes succeeds:
\* the record it yields and the generator afterwards, or exhaustion
RECURSIVE Pull(_)
Pull(g) ==
    IF g.buf # <<>>
    THEN [done |-> FALSE, rec |-> Head(g.buf), gen |-> [g EXCEPT !.buf = Tail(g.buf)]]
    ELSE IF g.srcs = <<>>
    THEN [done |-> TRUE, rec |-> Null, gen |-> g]
    ELSE LET page == Page(Head(g.srcs), g.offset, g.size)
         IN IF Len(page) = 0
            THEN Pull([g EXCEPT !.srcs = Tail(g.srcs), !.offset = 0])
            ELSE Pull([g EXCEPT !.offset = g.offset + Len(page), !.buf = page])

\* all the records a generator yields when no fetch fails
RECURSIVE Drain(_)
Drain(g) == IF Pull(g).done THEN <<>> ELSE <<Pull(g).rec>> \o Drain(Pull(g).gen)

\* ---------------------------------------------------------- MailChimpTap
NoStream == [stream_id |-> Null, item_id |-> Null]

RootStream(stream_id) == [stream_id |-> stream_id, item_id |-> Null]

ItemStream(stream_id, item_id) == [stream_id |-> stream_id, item_id |-> item_id]

\* stream_gens, in the order pour appends them
StreamGens == <<lists, campaigns, list_members, email_activity_reports>>

Parent(stream_id) == IF stream_id = list_members THEN lists ELSE campaigns

NewSched == [gen |-> 1, started |-> FALSE, pending |-> {}]

\* itertools.chain up to the generator that yields next: a root generator
\* yields its one stream; an item generator reads get_ids of its parent when
\* it is first resumed and yields one stream per id
\* mutant: the item generators read the ids the process was constructed with
RECURSIVE Advance_eager(_, _)
Advance_eager(sc, b) ==
    IF sc.gen > Len(StreamGens)
    THEN sc
    ELSE IF StreamGens[sc.gen] \in RootStreams
    THEN IF ~sc.started
         THEN sc
         ELSE Advance_eager([gen |-> sc.gen + 1, started |-> FALSE, pending |-> {}], b)
    ELSE LET p == IF sc.started THEN sc.pending
                  ELSE get_ids(loaded.bookmarks, Parent(StreamGens[sc.gen]))
         IN IF p # {}
            THEN [gen |-> sc.gen, started |-> TRUE, pending |-> p]
            ELSE Advance_eager([gen |-> sc.gen + 1, started |-> FALSE, pending |-> {}], b)

RECURSIVE Advance(_, _)
Advance(sc, b) ==
    IF sc.gen > Len(StreamGens)
    THEN sc
    ELSE IF StreamGens[sc.gen] \in RootStreams
    THEN IF ~sc.started
         THEN sc
         ELSE Advance([gen |-> sc.gen + 1, started |-> FALSE, pending |-> {}], b)
    ELSE LET p == IF sc.started THEN sc.pending ELSE get_ids(b, Parent(StreamGens[sc.gen]))
         IN IF p # {}
            THEN [gen |-> sc.gen, started |-> TRUE, pending |-> p]
            ELSE Advance([gen |-> sc.gen + 1, started |-> FALSE, pending |-> {}], b)

\* the streams the chain may yield next, each with the chain's position after
Yields(sc, b) ==
    LET a == Advance(sc, b)
    IN IF a.gen > Len(StreamGens)
       THEN {}
       ELSE IF StreamGens[a.gen] \in RootStreams
       THEN {[stream |-> RootStream(StreamGens[a.gen]),
              sched |-> [a EXCEPT !.started = TRUE]]}
       ELSE {[stream |-> ItemStream(StreamGens[a.gen], id),
              sched |-> [a EXCEPT !.pending = a.pending \ {id}]] : id \in a.pending}

check_stop(s) ==
    IF config.max_run_time # 0
    THEN config.max_run_time * 60 < session_time(s)
    ELSE FALSE

\* mutant: the exception leaves pour
Catch_propagates ==
    /\ faults < MaxFaults
    /\ faults' = faults + 1
    /\ is_error' = TRUE
    /\ raised' = raised \cup {stream}
    /\ pc' = "returned"
    /\ iter' = NoGenerator
    /\ record' = Null

\* the except clause of pour
Catch ==
    /\ faults < MaxFaults
    /\ faults' = faults + 1
    /\ is_error' = TRUE
    /\ raised' = raised \cup {stream}
    /\ pc' = "next"
    /\ iter' = NoGenerator
    /\ record' = Null

\* ---------------------------------------------------------------- paginator
\* The generator object of a paginator and the remote listing it reads:
\* variant is the function that made it, items the remote collection, reported
\* the total_items the remote puts in its responses; offset is the running
\* offset (offset of iter_all, process_count of mailchimp_gen), total_items the
\* total the paginator has read (-1 for None), n the size of the last page, buf
\* the items of the last page not yet yielded, yielded what the consumer got,
\* calls the calls of api.all so far.
Collection(T) == [i \in 1..T |-> i]

Paginator(variant, items, reported, offset) ==
    [variant |-> variant, items |-> items, reported |-> reported,
     pc |-> IF variant = "iter_items" THEN "total_items" ELSE "while",
     start |-> offset, offset |-> offset, total_items |-> -1, retry_count |-> 0,
     n |-> 0, buf |-> <<>>, yielded |-> <<>>, calls |-> <<>>, failures |-> 0]

NoPaginator == Paginator("none", <<>>, 0, 0)

\* no normalization function was called yet
NoCall == [op |-> "none", arg |-> Null, out |-> Null, written |-> Null]

\* one call of api.all: what was asked, the total the paginator knew when it
\* asked, whether the call returned, the items returned, the number of the
\* attempt and the sleep that followed
Call(kind, g, ok, n, attempt, slept) ==
    [kind |-> kind, offset |-> g.offset, known |-> g.total_items, ok |-> ok,
     n |-> n, attempt |-> attempt, slept |-> slept]

\* ------------------------------------------------------------ normalization
\* JSON values as the export and listing responses carry them: None, a
\* string, a number, a string that reads as a timestamp (the format it is
\* written in, its wall-clock reading and its offset, "" when it names none),
\* a list, an object.  A call returns a value or raises.
PyNone == [type |-> "null", text |-> "", n |-> 0, fmt |-> "", tz |-> ""]

Str(text) == [type |-> "str", text |-> text, n |-> 0, fmt |-> "", tz |-> ""]

Num(n) == [type |-> "num", text |-> "", n |-> n, fmt |-> "", tz |-> ""]

Stamp(fmt, t, tz) == [type |-> "stamp", text |-> "", n |-> t, fmt |-> fmt, tz |-> tz]

List(items) == [type |-> "list", items |-> items]

Obj(d) == [type |-> "dict", d |-> d]

Return(value) == [ok |-> TRUE, value |-> value, error |-> ""]

Raise(error) == [ok |-> FALSE, value |-> PyNone, error |-> error]

\* `v is None or v == ''`
IsBlank(v) == v.type = "null" \/ (v.type = "str" /\ v.text = "")

\* str(v)
str(v) ==
    CASE v.type = "num" -> Str(ToString(v.n))
      [] v.type = "null" -> Str("None")
      [] OTHER -> v

\* int(v), else float(v): "7" and "1.5" are the strings met that they
\* accept; a float is kept in tenths
int_or_float(v) ==
    CASE v.type \in {"num", "float"} -> Return(v)
      [] v.type = "str" /\ v.text = "7" -> Return(Num(7))
      [] v.type = "str" /\ v.text = "1.5" -> Return([Num(15) EXCEPT !.type = "float"])
      [] OTHER -> Raise("ValueError")

\* dateutil.parser.parse(dt) followed by isoformat()
datify(dt) ==
    IF IsBlank(dt)
    THEN Return(PyNone)
    ELSE IF dt.type = "stamp"
    THEN Return(Stamp("iso", dt.n, IF dt.tz = "" THEN "+00:00" ELSE dt.tz))
    ELSE Raise("ValueError")

datify_or_none(dt) == IF datify(dt).ok THEN datify(dt) ELSE Return(PyNone)

\* str.lower() on the addresses met
LowerCase ==
    [a \in {"Foo@Bar.com", "FOO@BAR.COM", "foo@bar.com", "baz@bar.com"} |->
        IF a = "baz@bar.com" THEN a ELSE "foo@bar.com"]

\* hashlib.md5(...).hexdigest(): a digest that separates the texts hashed
MD5(text) == "md5:" \o text

\* mutant: the address is hashed as it is written
mailchimp_email_id_as_written(email_address) == Str(MD5(email_address.text))

mailchimp_email_id(email_address) == Str(MD5(LowerCase[email_address.text]))

\* set_deep(dict_, key, value, sep='.'), key already split at the dots
RECURSIVE set_deep(_, _, _)
set_deep(dict_, key, value) ==
    IF Len(key) = 1
    THEN DictSet(dict_, key[1], value)
    ELSE DictSet(dict_, Head(key),
                 set_deep(DictGet(dict_, Head(key), EmptyDict), Tail(key), value))

\* one entry of a rename table; coerce "None" stands for an entry of None
Xform(key, v3_key, coerce) == [key |-> key, v3_key |-> v3_key, coerce |-> coerce]

LIST_EXPORT_V1_TO_API_V3 ==
    <<Xform("CC", <<"location", "country_code">>, "str"),
      Xform("CONFIRM_IP", <<"ip_opt">>, "str"),
      Xform("CONFIRM_TIME", <<"timestamp_opt">>, "datify"),
      Xform("DSTOFF", <<"location", "dstoff">>, "int_or_float"),
      Xform("EUID", <<"unique_email_id">>, "str"),
      Xform("Email Address", <<"email_address">>, "str"),
      Xform("GMTOFF", <<"location", "gmtoff">>, "int_or_float"),
      Xform("LAST_CHANGED", <<"last_changed">>, "datify"),
      Xform("LATITUDE", <<"location", "latitude">>, "int_or_float"),
      Xform("LEID", <<>>, "None"),
      Xform("LONGITUDE", <<"location", "longitude">>, "int_or_float"),
      Xform("MEMBER_RATING", <<"member_rating">>, "int_or_float"),
      Xform("NOTES", <<>>, "None"),
      Xform("OPTIN_IP", <<"ip_signup">>, "str"),
      Xform("OPTIN_TIME", <<"timestamp_signup">>, "datify"),
      Xform("REGION", <<>>, "None"),
      Xform("TIMEZONE", <<"location", "timezone">>, "str")>>

\* the loop of api_v3_map_with_merge_fields: mappings[name] = {...} on a
\* dict that keeps the order of insertion
RECURSIVE WithMergeFields(_, _)
WithMergeFields(mappings, merge_fields) ==
    IF merge_fields = <<>>
    THEN mappings
    ELSE LET field == Head(merge_fields)
             e == Xform(field.name, <<"merge_fields", field.tag>>,
                        CASE field.type = "number" -> "int_or_float"
                          [] field.type = "date" -> "datify_or_none"
                          [] OTHER -> "str")
         IN WithMergeFields(
                IF \E i \in DOMAIN mappings : mappings[i].key = e.key
                THEN [i \in DOMAIN mappings |->
                         IF mappings[i].key = e.key THEN e ELSE mappings[i]]
                ELSE Append(mappings, e),
                Tail(merge_fields))

\* mutant: the columns the table maps to None are kept under their own name
api_v3_map_with_unmapped(merge_fields) ==
    LET m == WithMergeFields(LIST_EXPORT_V1_TO_API_V3, merge_fields)
    IN [i \in DOMAIN m |-> IF m[i].coerce = "None"
                           THEN Xform(m[i].key, <<m[i].key>>, "str")
                           ELSE m[i]]

api_v3_map_with_merge_fields(merge_fields) ==
    SelectSeq(WithMergeFields(LIST_EXPORT_V1_TO_API_V3, merge_fields),
              LAMBDA e : e.coerce # "None")

Coerce(coerce, v) ==
    CASE coerce = "str" -> Return(str(v))
      [] coerce = "int_or_float" -> int_or_float(v)
      [] coerce = "datify" -> datify(v)
      [] coerce = "datify_or_none" -> datify_or_none(v)

\* the loop of coerce_list_export_to_api_v3 over mappings.items()
RECURSIVE CoerceColumns(_, _, _)
CoerceColumns(mappings, export_data, api_v3_data) ==
    IF mappings = <<>>
    THEN Return(api_v3_data)
    ELSE LET xform == Head(mappings)
             old_value == DictGet(export_data, xform.key, PyNone)
             new_value == Coerce(xform.coerce, old_value)
         IN IF IsBlank(old_value)
            THEN CoerceColumns(Tail(mappings), export_data, api_v3_data)
            ELSE IF ~new_value.ok
            THEN new_value
            ELSE CoerceColumns(Tail(mappings), export_data,
                               set_deep(api_v3_data, xform.v3_key, new_value.value))

coerce_list_export_to_api_v3(mappings, list_id, status, export_data) ==
    IF "Email Address" \notin DOMAIN export_data
    THEN Raise("KeyError")
    ELSE IF export_data["Email Address"].type # "str"
    THEN Raise("AttributeError")
    ELSE CoerceColumns(mappings, export_data,
                       ("id" :> mailchimp_email_id(export_data["Email Address"]))
                       @@ ("list_id" :> Str(list_id))
                       @@ ("status" :> Str(status)))

\* the merge fields of a list, as lists.merge_fields lists them
MergeFields(list_id) ==
    <<[merge_id |-> 1, tag |-> "FNAME", name |-> "First Name", type |-> "text"],
      [merge_id |-> 2, tag |-> "AGE", name |-> "Age", type |-> "number"],
      [merge_id |-> 3, tag |-> "BDAY", name |-> "Birthday", type |-> "date"]>>

\* one row of MailChimp.list_export_api_v3
list_export_api_v3(list_id, status, item) ==
    coerce_list_export_to_api_v3(api_v3_map_with_merge_fields(MergeFields(list_id)),
                                 list_id, status, item)

\* one activity of an activity list: None when a key is missing
ActivityOf(activity) ==
    IF {"action", "ip", "timestamp"} \subseteq DOMAIN activity
    THEN IF datify(activity.timestamp).ok
         THEN Return([action |-> activity.action, ip |-> activity.ip,
                      timestamp |-> datify(activity.timestamp).value])
         ELSE datify(activity.timestamp)
    ELSE Raise("KeyError")

coerce_activity_export_to_api_v3(campaign_id, list_id, export_data) ==
    IF export_data.type # "dict"
    THEN Raise("ValueError")
    ELSE IF Cardinality(DOMAIN export_data.d) > 1
    THEN Raise("ValueError")
    ELSE IF DOMAIN export_data.d = {}
    THEN Return(EmptyDict)
    ELSE LET email_address == CHOOSE k \in DOMAIN export_data.d : TRUE
             activity_list == export_data.d[email_address]
         IN IF activity_list.type # "list"
            THEN Raise("ValueError")
            ELSE IF \E i \in DOMAIN activity_list.items :
                        ~ActivityOf(activity_list.items[i]).ok
            THEN ActivityOf(activity_list.items[
                     CHOOSE i \in DOMAIN activity_list.items :
                        /\ ~ActivityOf(activity_list.items[i]).ok
                        /\ \A j \in 1..(i - 1) : ActivityOf(activity_list.items[j]).ok])
            ELSE Return([campaign_id |-> Str(campaign_id),
                         email_address |-> Str(email_address),
                         email_id |-> mailchimp_email_id(Str(email_address)),
                         list_id |-> Str(list_id),
                         activity |-> [i \in DOMAIN activity_list.items |->
                                          ActivityOf(activity_list.items[i]).value]])

\* MailChimp._format_time_for_export: strftime('%Y-%m-%d %H:%M:%S'), None as is
format_time_for_export(dt) ==
    IF dt.kind = "datetime" THEN Stamp("plain", dt.t, "") ELSE PyNone

\* one line of MailChimp.subscriber_activity_export_api_v3; the exception
\* carries the dict it is raised with
subscriber_activity_export_api_v3(campaign_id, list_id, since, item) ==
    IF item.type # "dict"
    THEN Raise("AttributeError")
    ELSE IF "error" \in DOMAIN item.d /\ ~IsBlank(item.d.error)   \* item.get('error')
    THEN [Raise("SubscriberActivityExportError") EXCEPT
             !.value = Obj([error |-> item.d.error,
                            code |-> DictGet(item.d, "code", PyNone),
                            campaign_id |-> Str(campaign_id),
                            list_id |-> Str(list_id),
                            since |-> since])]
    ELSE coerce_activity_export_to_api_v3(campaign_id, list_id, item)

\* clean_links: the '_links' entries are deleted
clean_links(d) == [k \in DOMAIN d \ {"_links"} |-> d[k]]

\* fix_blank_date_time_format: '' is deleted from the date-time properties of
\* the record (those of the member schema the remote serves) and of the
\* objects of its 'activity' array
DropBlank(j, props) ==
    [k \in {p \in DOMAIN j : ~(p \in props /\ j[p] = Str(""))} |-> j[k]]

fix_blank_date_time_format(json) ==
    LET j == DropBlank(json, {"timestamp_opt", "timestamp_signup", "last_changed"})
    IN IF "activity" \in DOMAIN j
       THEN DictSet(j, "activity",
                    [i \in DOMAIN j.activity |-> DropBlank(j.activity[i], {"timestamp"})])
       ELSE j

\* TapStream._write_record: the record handed to singer.write_record
TapStream_write_record(rec) ==
    fix_blank_date_time_format(IF config.keep_links THEN rec ELSE clean_links(rec))

\* ListMemberStream._get_merge_fields: the catalog by tag
get_merge_fields(list_id) ==
    LET mf_response == MergeFields(list_id)
    IN [tag \in {mf_response[i].tag : i \in DOMAIN mf_response} |->
           mf_response[CHOOSE i \in DOMAIN mf_response :
                          /\ mf_response[i].tag = tag
                          /\ \A j \in DOMAIN mf_response :
                                mf_response[j].tag = tag => j <= i]]

\* mutant: the object is named after its tag
MergeFieldObject_named_by_tag(field_spec, tag, value) ==
    [merge_id |-> Num(field_spec.merge_id), tag |-> Str(tag), name |-> Str(tag),
     type |-> Str(field_spec.type), value |-> str(value)]

\* the object _convert_merge_fields appends for one tag
MergeFieldObject(field_spec, tag, value) ==
    [merge_id |-> Num(field_spec.merge_id), tag |-> Str(tag),
     name |-> Str(field_spec.name), type |-> Str(field_spec.type),
     value |-> str(value)]

\* ListMemberStream._convert_merge_fields; the items of the mapping come in
\* the order of the catalog
convert_merge_fields(list_id, rec) ==
    LET mf_lookup == get_merge_fields(list_id)
        mf_dict == DictGet(rec, "merge_fields", EmptyDict)
        catalog == MergeFields(list_id)
        tags == SelectSeq([i \in DOMAIN catalog |-> catalog[i].tag],
                          LAMBDA tag : tag \in DOMAIN mf_dict)
    IN IF \E tag \in DOMAIN mf_dict : tag \notin DOMAIN mf_lookup
       THEN Raise("KeyError")
       ELSE Return(DictSet(rec, "merge_fields",
                           [i \in DOMAIN tags |->
                               MergeFieldObject(mf_lookup[tags[i]], tags[i],
                                                mf_dict[tags[i]])]))

RECURSIVE Items(_)
Items(d) ==
    IF DOMAIN d = {}
    THEN <<>>
    ELSE LET k == CHOOSE k \in DOMAIN d : TRUE
         IN <<[id |-> Str(k), value |-> d[k]]>> \o Items([j \in DOMAIN d \ {k} |-> d[j]])

\* ListMemberStream._convert_interests
convert_interests(rec) ==
    DictSet(rec, "interests", Items(DictGet(rec, "interests", EmptyDict)))

\* ListMemberStream._write_record
ListMemberStream_write_record(list_id, rec) ==
    LET converted == IF config.merge_fields_array
                     THEN convert_merge_fields(list_id, rec)
                     ELSE Return(rec)
    IN IF ~converted.ok
       THEN converted
       ELSE Return(TapStream_write_record(IF config.interests_array
                                          THEN convert_interests(converted.value)
                                          ELSE converted.value))

\* the JSON line of the activity export a record id stands for; "error" is
\* the error object the remote answers a request with
ExportLine(rec) ==
    IF rec = "error"
    THEN Obj(("error" :> Str("Invalid campaign")) @@ ("code" :> Num(300)))
    ELSE Obj("foo@bar.com" :> List(<<[action |-> Str("open"), ip |-> Str("1.2.3.4"),
                                      timestamp |-> Stamp("plain", 100, "")]>>))

\* EmailActivityStream._iter_records, bulk export branch: what the generator
\* of subscriber_activity_export_api_v3 makes of the next line (the list of the
\* campaign is a, since is the start date)
activity_export_item(st, s, rec) ==
    subscriber_activity_export_api_v3(st.item_id, "a",
                                      format_time_for_export(start_date(s)),
                                      ExportLine(rec))

ExportRaises(st, s, rec) ==
    /\ st.stream_id = email_activity_reports
    /\ config.use_email_activity_export
    /\ ~activity_export_item(st, s, rec).ok

\* ----------------------------------------------------------------- actions
Init ==
    /\ now = 0
    /\ cfg \in Cfgs
    /\ config = TapConfig(cfg)
    /\ remote \in Remotes
    /\ persisted = EmptyDict
    /\ state = TapState(EmptyDict, 0)
    /\ loaded = TapState(EmptyDict, 0)
    /\ pc = "next"
    /\ is_error = FALSE
    /\ sched = NewSched
    /\ stream = NoStream
    /\ iter = NoGenerator
    /\ record = Null
    /\ sink = <<>>
    /\ run = 1
    /\ scheduled = {}
    /\ attempted = {}
    /\ raised = {}
    /\ faults = 0
    /\ pag = NoPaginator
    /\ norm = NoCall

\* the places where the process reads the clock next: _check_stop at the head
\* of the pour loop, sync after a record or in post_pour, TapState.__init__
ReadsClock ==
    \/ pc \in {"next", "update", "stopped", "returned"}
    \/ pc = "iter" /\ Pull(iter).done

\* time passes (observed at the next read of the clock)
Tick ==
    /\ ReadsClock
    /\ now + TimeStep <= MaxClock
    /\ now' = now + TimeStep
    /\ UNCHANGED <<cfg, config, remote, pag, norm, persisted, state, pc, is_error, sched, stream,
                   iter, record, sink, run, loaded, attempted, raised, faults, scheduled>>

\* mutant: the early stop marks the run as failed
PourEarlyStop_failed ==
    /\ pc = "next"
    /\ \E y \in Yields(sched, state.bookmarks) :
         /\ check_stop(state)
         /\ sched' = y.sched
         /\ stream' = y.stream
         /\ scheduled' = scheduled \cup {y.stream}
         /\ pc' = "stopped"
    /\ is_error' = TRUE
    /\ UNCHANGED <<now, cfg, config, remote, pag, norm, persisted, state, iter, record,
                   sink, run, loaded, attempted, raised, faults>>

\* pour: the chain yields a stream and the time budget is exceeded
PourEarlyStop ==
    /\ pc = "next"
    /\ \E y \in Yields(sched, state.bookmarks) :
         /\ check_stop(state)
         /\ sched' = y.sched
         /\ stream' = y.stream
         /\ scheduled' = scheduled \cup {y.stream}
         /\ pc' = "stopped"
    /\ UNCHANGED <<now, cfg, config, remote, pag, norm, persisted, state, is_error, iter, record,
                   sink, run, loaded, attempted, raised, faults>>

\* pour: the chain yields a stream that is done
PourSkipDone ==
    /\ pc = "next"
    /\ \E y \in Yields(sched, state.bookmarks) :
         /\ ~check_stop(state)
         /\ is_done(y.stream, state)
         /\ sched' = y.sched
         /\ stream' = y.stream
         /\ scheduled' = scheduled \cup {y.stream}
    /\ UNCHANGED <<now, cfg, config, remote, pag, norm, persisted, state, pc, is_error, iter,
                   record, sink, run, loaded, attempted, raised, faults>>

\* pour: the chain yields a stream to run; stream.pour() up to pre_pour
PourStartStream ==
    /\ pc = "next"
    /\ \E y \in Yields(sched, state.bookmarks) :
         /\ ~check_stop(state)
         /\ ~is_done(y.stream, state)
         /\ sched' = y.sched
         /\ stream' = y.stream
         /\ scheduled' = scheduled \cup {y.stream}
         /\ attempted' = attempted \cup {y.stream}
         /\ state' = [state EXCEPT !.currently_syncing = y.stream.stream_id]
         /\ pc' = "pour_schema"
    /\ UNCHANGED <<now, cfg, config, remote, pag, norm, persisted, is_error, iter, record, sink,
                   run, loaded, raised, faults>>

\* mutant: finalize_run is called whatever is_error says
PourLoopEnd_always ==
    /\ pc = "next"
    /\ Yields(sched, state.bookmarks) = {}
    /\ sync(finalize_run(state), TRUE)
    /\ sched' = Advance(sched, state.bookmarks)
    /\ pc' = "returned"
    /\ stream' = NoStream
    /\ UNCHANGED <<now, cfg, config, remote, pag, norm, is_error, iter, record, sink, run, loaded,
                   attempted, raised, faults, scheduled>>

\* pour: the chain is exhausted
PourLoopEnd ==
    /\ pc = "next"
    /\ Yields(sched, state.bookmarks) = {}
    /\ sync(IF ~is_error THEN finalize_run(state) ELSE state, TRUE)
    /\ sched' = Advance(sched, state.bookmarks)
    /\ pc' = "returned"
    /\ stream' = NoStream
    /\ UNCHANGED <<now, cfg, config, remote, pag, norm, is_error, iter, record, sink, run, loaded,
                   attempted, raised, faults, scheduled>>

\* mutant: the records are written without a schema declaration
PourSchema_silent ==
    /\ pc = "pour_schema"
    /\ iter' = iter_records(stream, state)
    /\ pc' = "iter"
    /\ UNCHANGED <<now, cfg, config, remote, pag, norm, persisted, state, is_error, sched, stream,
                   record, sink, run, loaded, attempted, raised, faults, scheduled>>

\* TapStream.pour_schema
PourSchema ==
    /\ pc = "pour_schema"
    /\ sink' = Append(sink, [type |-> "SCHEMA", stream |-> stream, record |-> Null])
    /\ iter' = iter_records(stream, state)
    /\ pc' = "iter"
    /\ UNCHANGED <<now, cfg, config, remote, pag, norm, persisted, state, is_error, sched, stream,
                   record, run, loaded, attempted, raised, faults, scheduled>>

\* the schema fetch raises
PourSchemaRaise ==
    /\ pc = "pour_schema"
    /\ Catch
    /\ UNCHANGED <<now, cfg, config, remote, pag, norm, persisted, state, sched, stream, sink, run,
                   loaded, attempted, scheduled>>

\* the for loop of TapStream.pour takes the next record
IterYield ==
    /\ pc = "iter"
    /\ ~Pull(iter).done
    /\ ~ExportRaises(stream, state, Pull(iter).rec)
    /\ record' = Pull(iter).rec
    /\ iter' = Pull(iter).gen
    /\ pc' = "write"
    /\ UNCHANGED <<now, cfg, config, remote, pag, norm, persisted, state, is_error, sched, stream,
                   sink, run, loaded, attempted, raised, faults, scheduled>>

\* mutant: the generator skips the error object and goes on
IterExportError_skips ==
    /\ pc = "iter"
    /\ ~Pull(iter).done
    /\ ExportRaises(stream, state, Pull(iter).rec)
    /\ norm' = [op |-> "activity_export", arg |-> ExportLine(Pull(iter).rec),
                out |-> activity_export_item(stream, state, Pull(iter).rec),
                written |-> Null]
    /\ iter' = Pull(iter).gen
    /\ UNCHANGED <<now, cfg, config, remote, pag, persisted, state, pc, is_error, sched,
                   stream, record, sink, run, loaded, attempted, raised, faults, scheduled>>

\* the next line of the activity export is an error object: the generator
\* raises SubscriberActivityExportError, which the except clause of pour logs
IterExportError ==
    /\ pc = "iter"
    /\ ~Pull(iter).done
    /\ ExportRaises(stream, state, Pull(iter).rec)
    /\ norm' = [op |-> "activity_export", arg |-> ExportLine(Pull(iter).rec),
                out |-> activity_export_item(stream, state, Pull(iter).rec),
                written |-> Null]
    /\ is_error' = TRUE
    /\ raised' = raised \cup {stream}
    /\ pc' = "next"
    /\ iter' = NoGenerator
    /\ record' = Null
    /\ UNCHANGED <<now, cfg, config, remote, pag, persisted, state, sched, stream, sink, run,
                   loaded, attempted, faults, scheduled>>

\* mutant: post_pour runs although the fetch raised
IterRaise_marks_done ==
    /\ pc = "iter"
    /\ iter.buf = <<>>
    /\ Catch
    /\ state' = set_stream_done(stream, state)
    /\ UNCHANGED <<now, cfg, config, remote, pag, norm, persisted, sched, stream, sink, run,
                   loaded, attempted, scheduled>>

\* a fetch of the generator raises (only a next() that has to fetch can)
IterRaise ==
    /\ pc = "iter"
    /\ iter.buf = <<>>
    /\ Catch
    /\ UNCHANGED <<now, cfg, config, remote, pag, norm, persisted, state, sched, stream, sink, run,
                   loaded, attempted, scheduled>>

\* mutant: post_pour does not mark the stream done
PostPour_not_done ==
    /\ pc = "iter"
    /\ Pull(iter).done
    /\ sync([state EXCEPT !.currently_syncing = Null], TRUE)
    /\ iter' = NoGenerator
    /\ pc' = "next"
    /\ UNCHANGED <<now, cfg, config, remote, pag, norm, is_error, sched, stream, record, sink, run,
                   loaded, attempted, raised, faults, scheduled>>

\* the generator is exhausted: TapStream.post_pour
PostPour ==
    /\ pc = "iter"
    /\ Pull(iter).done
    /\ sync([set_stream_done(stream, state) EXCEPT !.currently_syncing = Null], TRUE)
    /\ iter' = NoGenerator
    /\ pc' = "next"
    /\ UNCHANGED <<now, cfg, config, remote, pag, norm, is_error, sched, stream, record, sink, run,
                   loaded, attempted, raised, faults, scheduled>>

\* mutant: the state is updated for a record that is not written
WriteRecord_unwritten ==
    /\ pc = "write"
    /\ pc' = "update"
    /\ UNCHANGED <<now, cfg, config, remote, pag, norm, persisted, state, is_error, sched, stream,
                   iter, record, sink, run, loaded, attempted, raised, faults, scheduled>>

\* TapStream._write_record
WriteRecord ==
    /\ pc = "write"
    /\ sink' = Append(sink, [type |-> "RECORD", stream |-> stream, record |-> record])
    /\ pc' = "update"
    /\ UNCHANGED <<now, cfg, config, remote, pag, norm, persisted, state, is_error, sched, stream,
                   iter, record, run, loaded, attempted, raised, faults, scheduled>>

\* the normalization of the record raises
WriteRaise ==
    /\ pc = "write"
    /\ Catch
    /\ UNCHANGED <<now, cfg, config, remote, pag, norm, persisted, state, sched, stream, sink, run,
                   loaded, attempted, scheduled>>

\* TapStream._update_state, then the throttled sync
UpdateState ==
    /\ pc = "update"
    /\ sync(update_state(stream, state, record), FALSE)
    /\ record' = Null
    /\ pc' = "iter"
    /\ UNCHANGED <<now, cfg, config, remote, pag, norm, is_error, sched, stream, iter, sink, run,
                   loaded, attempted, raised, faults, scheduled>>

\* main(): the next process starts from the last persisted snapshot
Restart ==
    /\ pc \in {"stopped", "returned"}
    /\ run < MaxRuns
    /\ run' = run + 1
    /\ state' = TapState(persisted, now)
    /\ loaded' = TapState(persisted, now)
    /\ pc' = "next"
    /\ is_error' = FALSE
    /\ sched' = NewSched
    /\ stream' = NoStream
    /\ iter' = NoGenerator
    /\ record' = Null
    /\ sink' = <<>>
    /\ scheduled' = {}
    /\ attempted' = {}
    /\ raised' = {}
    /\ UNCHANGED <<now, cfg, config, remote, pag, norm, persisted, faults>>

Next ==
    \/ Tick
    \/ PourEarlyStop
    \/ PourSkipDone
    \/ PourStartStream
    \/ PourLoopEnd
    \/ PourSchema
    \/ PourSchemaRaise
    \/ IterYield
    \/ IterRaise
    \/ PostPour
    \/ WriteRecord
    \/ WriteRaise
    \/ UpdateState
    \/ Restart

Spec == Init /\ [][Next]_vars

\* ------------------------------------------------------- paginator actions
PagCfgs == {Cfg(0, c, STAR, FALSE) : c \in 1..MaxCount}

Paginators ==
    {Paginator(v, Collection(T), r, o) :
        v \in {"iter_items", "mailchimp_gen"}, T \in 0..MaxTotal,
        r \in 0..MaxTotal, o \in {0, 1}}

PagInit ==
    /\ now = 0
    /\ cfg \in PagCfgs
    /\ config = TapConfig(cfg)
    /\ remote \in Remotes
    /\ persisted = EmptyDict
    /\ state = TapState(EmptyDict, 0)
    /\ loaded = TapState(EmptyDict, 0)
    /\ pc = "next"
    /\ is_error = FALSE
    /\ sched = NewSched
    /\ stream = NoStream
    /\ iter = NoGenerator
    /\ record = Null
    /\ sink = <<>>
    /\ run = 1
    /\ scheduled = {}
    /\ attempted = {}
    /\ raised = {}
    /\ faults = 0
    /\ pag \in Paginators
    /\ norm = NoCall

PagUnchanged ==
    UNCHANGED <<cfg, config, remote, persisted, state, pc, is_error, sched, stream,
                iter, record, sink, run, loaded, scheduled, attempted, raised, faults,
                norm>>

CanCall == Len(pag.calls) < MaxCalls

CanFail == pag.failures < MaxFailures

\* MailChimp.total_items, called first by iter_items
TotalItems ==
    /\ pag.variant = "iter_items" /\ pag.pc = "total_items"
    /\ pag' = [pag EXCEPT !.total_items = pag.reported,
                          !.calls = Append(@, Call("total", pag, TRUE, 0, 1, 0)),
                          !.pc = "fetch"]
    /\ UNCHANGED now
    /\ PagUnchanged

\* the call of total_items raises
TotalItemsRaise ==
    /\ pag.variant = "iter_items" /\ pag.pc = "total_items"
    /\ CanFail
    /\ pag' = [pag EXCEPT !.calls = Append(@, Call("total", pag, FALSE, 0, 1, 0)),
                          !.failures = @ + 1,
                          !.pc = "raised"]
    /\ UNCHANGED now
    /\ PagUnchanged

\* mutant: the offset is not advanced by the items returned
IterAllFetch_keeps_offset ==
    /\ pag.variant = "iter_items" /\ pag.pc = "fetch"
    /\ CanCall
    /\ LET response == Page(pag.items, pag.offset, config.count)
       IN pag' = [pag EXCEPT !.n = Len(response),
                             !.buf = response,
                             !.calls = Append(@, Call("page", pag, TRUE, Len(response), 1, 0)),
                             !.pc = "yield"]
    /\ UNCHANGED now
    /\ PagUnchanged

\* iter_all: response = api.all(offset=offset, ...); n = len(...); offset += n
IterAllFetch ==
    /\ pag.variant = "iter_items" /\ pag.pc = "fetch"
    /\ CanCall
    /\ LET response == Page(pag.items, pag.offset, config.count)
       IN pag' = [pag EXCEPT !.n = Len(response),
                             !.offset = @ + Len(response),
                             !.buf = response,
                             !.calls = Append(@, Call("page", pag, TRUE, Len(response), 1, 0)),
                             !.pc = "yield"]
    /\ UNCHANGED now
    /\ PagUnchanged

\* iter_all: api.all raises; nothing catches it inside the paginator
IterAllRaise ==
    /\ pag.variant = "iter_items" /\ pag.pc = "fetch"
    /\ CanCall /\ CanFail
    /\ pag' = [pag EXCEPT !.calls = Append(@, Call("page", pag, FALSE, 0, 1, 0)),
                          !.failures = @ + 1,
                          !.pc = "raised"]
    /\ UNCHANGED now
    /\ PagUnchanged

\* iter_items: yield from current_items
IterItemsYield ==
    /\ pag.variant = "iter_items" /\ pag.pc = "yield"
    /\ pag.buf # <<>>
    /\ pag' = [pag EXCEPT !.yielded = Append(@, Head(pag.buf)), !.buf = Tail(@)]
    /\ UNCHANGED now
    /\ PagUnchanged

\* iter_all: if get_all or n == 0: break
IterAllBreak ==
    /\ pag.variant = "iter_items" /\ pag.pc = "yield"
    /\ pag.buf = <<>>
    /\ pag' = [pag EXCEPT !.pc = IF pag.n = 0 THEN "done" ELSE "fetch"]
    /\ UNCHANGED now
    /\ PagUnchanged

\* mailchimp_gen: while total_items is None or process_count < total_items
GenWhile ==
    /\ pag.variant = "mailchimp_gen" /\ pag.pc = "while"
    /\ pag' = IF pag.total_items = -1 \/ pag.offset < pag.total_items
              THEN [pag EXCEPT !.retry_count = 0, !.pc = "fetch"]
              ELSE [pag EXCEPT !.pc = "done"]
    /\ UNCHANGED now
    /\ PagUnchanged

\* mailchimp_gen: an attempt of api_method.all returns
GenFetch ==
    /\ pag.variant = "mailchimp_gen" /\ pag.pc = "fetch"
    /\ CanCall
    /\ pag.retry_count < MAX_RETRIES
    /\ LET response == Page(pag.items, pag.offset, config.count)
       IN pag' = [pag EXCEPT !.retry_count = @ + 1,
                             !.n = Len(response),
                             !.buf = response,
                             !.total_items = IF @ = -1 THEN pag.reported ELSE @,
                             !.calls = Append(@, Call("page", pag, TRUE, Len(response),
                                                      pag.retry_count + 1, 0)),
                             !.pc = "yield"]
    /\ UNCHANGED now
    /\ PagUnchanged

\* mailchimp_gen: an attempt raises; the except clause re-raises on the last
\* attempt and sleeps 2 ** retry_count otherwise
GenFetchExcept ==
    /\ pag.variant = "mailchimp_gen" /\ pag.pc = "fetch"
    /\ CanCall /\ CanFail
    /\ pag.retry_count < MAX_RETRIES
    /\ LET retry_count == pag.retry_count + 1
       IN IF retry_count = MAX_RETRIES
          THEN /\ pag' = [pag EXCEPT !.retry_count = retry_count,
                                     !.failures = @ + 1,
                                     !.calls = Append(@, Call("page", pag, FALSE, 0,
                                                              retry_count, 0)),
                                     !.pc = "raised"]
               /\ UNCHANGED now
          ELSE /\ pag' = [pag EXCEPT !.retry_count = retry_count,
                                     !.failures = @ + 1,
                                     !.calls = Append(@, Call("page", pag, FALSE, 0,
                                                              retry_count, 2 ^ retry_count))]
               /\ now' = now + 2 ^ retry_count
    /\ PagUnchanged

\* mailchimp_gen: yield i; process_count += 1
GenYield ==
    /\ pag.variant = "mailchimp_gen" /\ pag.pc = "yield"
    /\ pag.buf # <<>>
    /\ pag' = [pag EXCEPT !.yielded = Append(@, Head(pag.buf)),
                          !.buf = Tail(@),
                          !.offset = @ + 1]
    /\ UNCHANGED now
    /\ PagUnchanged

\* mailchimp_gen: the page is consumed (log_progress), back to the while test
GenPageEnd ==
    /\ pag.variant = "mailchimp_gen" /\ pag.pc = "yield"
    /\ pag.buf = <<>>
    /\ pag' = [pag EXCEPT !.pc = "while"]
    /\ UNCHANGED now
    /\ PagUnchanged

PagNext ==
    \/ TotalItems
    \/ TotalItemsRaise
    \/ IterAllFetch
    \/ IterAllRaise
    \/ IterItemsYield
    \/ IterAllBreak
    \/ GenWhile
    \/ GenFetch
    \/ GenFetchExcept
    \/ GenYield
    \/ GenPageEnd

PagSpec == PagInit /\ [][PagNext]_vars

\* ------------------------------------------------- the normalization alone
\* The watermark calculator, the campaign listings and the normalization
\* functions applied to the lines the remote can return, one call in a behaviour.
NormCfgs ==
    {c @@ l @@ m :
        c \in {Cfg(0, 2, s, FALSE) : s \in {STAR, DateStr(-10)}},
        l \in {EmptyDict} \cup {"lag" :> d : d \in 0..MaxLag},
        m \in {EmptyDict, "merge_fields_array" :> FALSE}}
    \cup {Cfg(0, 2, s, FALSE) @@ ("use_list_member_export" :> TRUE) :
             s \in {STAR, DateStr(-10)}}

\* None, '', "2020-01-01 00:00:00", "2020-01-01T00:00:00-05:00", "garbage"
DateInputs ==
    {PyNone, Str(""), Stamp("plain", 100, ""), Stamp("iso", 100, "-05:00"),
     Str("garbage")}

\* rows of the list export: dict(zip(headers, record))
ExportRows ==
    {("Email Address" :> Str(e)) @@ ("CC" :> cc) @@ ("CONFIRM_TIME" :> ct)
       @@ ("LEID" :> leid) @@ ("FOO" :> foo) @@ ("First Name" :> Str("Jane"))
       @@ ("Age" :> age) @@ ("Birthday" :> bday) :
        e \in {"Foo@Bar.com", "foo@bar.com"}, cc \in {Str(""), Str("US")},
        ct \in DateInputs, leid \in {Str(""), Str("1")}, foo \in {Str(""), Str("z")},
        age \in {Str(""), Str("7")}, bday \in {Str(""), Str("garbage")}}
    \cup {"CC" :> Str("US")}

\* member records of the API v3 listing
MemberRecords ==
    {("id" :> Str("m1")) @@ mf @@ links @@ opt :
        mf \in {EmptyDict} \cup
               {"merge_fields" :> f :
                    f \in {EmptyDict, "FNAME" :> Str("Jane"),
                           ("FNAME" :> Str("Jane")) @@ ("AGE" :> Num(7)),
                           "ZIP" :> Str("1")}},
        links \in {EmptyDict, "_links" :> List(<<>>)},
        opt \in {EmptyDict, "timestamp_opt" :> Str(""), "timestamp_opt" :> Stamp("iso", 100, "-05:00")}}

Activity(ts) == [action |-> Str("open"), ip |-> Str("1.2.3.4"), timestamp |-> ts]

\* lines of the subscriber activity export
ActivityLines ==
    {Obj(EmptyDict),
     Obj(("foo@bar.com" :> List(<<>>)) @@ ("baz@bar.com" :> List(<<>>))),
     Obj(("error" :> Str("Invalid campaign")) @@ ("code" :> Num(300))),
     Obj("foo@bar.com" :> Str("open")),
     Obj("foo@bar.com" :> List(<<[action |-> Str("open"), ip |-> Str("1.2.3.4")]>>)),
     List(<<>>)}
    \cup {Obj(e :> List(<<>>)) : e \in {"Foo@Bar.com"}}
    \cup {Obj(e :> List(<<Activity(t)>>)) : e \in {"Foo@Bar.com"}, t \in DateInputs}
    \cup {Obj(e :> List(<<Activity(t), Activity(u)>>)) :
             e \in {"foo@bar.com"}, t \in DateInputs, u \in {Stamp("plain", 100, ""), Str("")}}

NormInit ==
    /\ now = 0
    /\ cfg \in NormCfgs
    /\ config = TapConfig(cfg)
    /\ remote \in [lists : {<<"a", "b">>},
                   campaigns : {<<"x">>, <<"y", "x", "z">>},
                   members : {[l \in ListIds |-> ItemRecords(1)]},
                   activity : {[c \in CampaignIds |-> ItemRecords(1)]}]
    /\ persisted \in {EmptyDict, "last_run" :> isoformat(Datetime(70))}
    /\ state = TapState(persisted, 0)
    /\ loaded = TapState(persisted, 0)
    /\ pc = "next"
    /\ is_error = FALSE
    /\ sched = NewSched
    /\ stream = NoStream
    /\ iter = NoGenerator
    /\ record = Null
    /\ sink = <<>>
    /\ run = 1
    /\ scheduled = {}
    /\ attempted = {}
    /\ raised = {}
    /\ faults = 0
    /\ pag = NoPaginator
    /\ norm = NoCall

NormUnchanged ==
    UNCHANGED <<now, cfg, config, remote, persisted, state, pc, is_error, sched, stream,
                iter, record, sink, run, loaded, scheduled, attempted, raised, faults,
                pag>>

\* TapStream._lag_date
LagDate ==
    /\ norm = NoCall
    /\ norm' = [op |-> "lag_date", arg |-> start_date(state), out |-> lag_date(state),
                written |-> Null]
    /\ NormUnchanged

\* CampaignStream._iter_records, read to its end
IterCampaigns ==
    /\ norm = NoCall
    /\ norm' = [op |-> "campaigns", arg |-> campaign_listings(state),
                out |-> Drain(iter_records(RootStream(campaigns), state)),
                written |-> Null]
    /\ NormUnchanged

\* MailChimp.list_export: the form it posts to the export endpoint
list_export_post_data(kwargs) ==
    LET since == format_time_for_export(DictGet(kwargs, "since", NONE))
    IN ("id" :> kwargs.list_id) @@ ("status" :> kwargs.status)
       @@ (IF since = PyNone THEN EmptyDict ELSE "since" :> since)

\* ListMemberStream._iter_records: the calls it makes on the client, in their
\* order, each with the keyword arguments it is given and the parameters of
\* the request that follows from them
list_member_calls(st, s) ==
    IF config.use_list_member_export
    THEN LET args == IF start_date(s).kind # "none"
                     THEN "since" :> start_date(s)
                     ELSE EmptyDict
             kwargs(i) == ("list_id" :> Str(st.item_id))
                          @@ ("status" :> Str(Statuses[i])) @@ args
         IN [i \in 1..Len(Statuses) |->
                [api |-> "list_export", kwargs |-> kwargs(i),
                 request |-> list_export_post_data(kwargs(i))]]
    ELSE LET kwargs == ("list_id" :> Str(st.item_id))
                       @@ ("count" :> Num(config.count))
                       @@ ("offset" :> Num(Offset(st, s)))
         IN <<[api |-> "lists.members", kwargs |-> kwargs, request |-> kwargs]>>

\* the calls ListMemberStream makes on the client for list a
ListMembersFetch ==
    /\ norm = NoCall
    /\ norm' = [op |-> "list_member_calls",
                arg |-> list_member_calls(ItemStream(list_members, "a"), state),
                out |-> Null, written |-> Null]
    /\ NormUnchanged

\* one row of the list export, normalized and written by ListMemberStream
ListExport ==
    /\ norm = NoCall
    /\ \E item \in ExportRows :
         LET out == list_export_api_v3("a", Statuses[1], item)
         IN norm' = [op |-> "list_export", arg |-> item, out |-> out,
                     written |-> IF out.ok
                                 THEN ListMemberStream_write_record("a", out.value)
                                 ELSE out]
    /\ NormUnchanged

\* one member of the API v3 listing written by ListMemberStream
WriteMember ==
    /\ norm = NoCall
    /\ \E rec \in MemberRecords :
         norm' = [op |-> "write_member", arg |-> rec, out |-> Return(rec),
                  written |-> ListMemberStream_write_record("a", rec)]
    /\ NormUnchanged

\* one line of the activity export, normalized and written by
\* EmailActivityStream
ActivityExport ==
    /\ norm = NoCall
    /\ \E item \in ActivityLines :
         LET out == subscriber_activity_export_api_v3(
                        "x", "a", format_time_for_export(start_date(state)), item)
         IN norm' = [op |-> "activity_export", arg |-> item, out |-> out,
                     written |-> IF out.ok
                                 THEN Return(TapStream_write_record(out.value))
                                 ELSE out]
    /\ NormUnchanged

EmailId ==
    /\ norm = NoCall
    /\ \E e \in DOMAIN LowerCase :
         norm' = [op |-> "email_id", arg |-> Str(e), out |-> mailchimp_email_id(Str(e)),
                  written |-> Null]
    /\ NormUnchanged

Datify ==
    /\ norm = NoCall
    /\ \E dt \in DateInputs :
         norm' = [op |-> "datify", arg |-> dt, out |-> datify(dt), written |-> Null]
    /\ NormUnchanged

NormNext ==
    \/ LagDate
    \/ IterCampaigns
    \/ ListExport
    \/ WriteMember
    \/ ListMembersFetch
    \/ ActivityExport
    \/ EmailId
    \/ Datify

NormSpec == NormInit /\ [][NormNext]_vars

\* ------------------------------------------------- the export that fails
\* The pour loop again, over a remote whose activity export may answer with
\* an error object in the middle of the lines of campaign x.  List a is read
\* through the paginator or through the export, two records a page, and the
\* clock advances a minute at a time.
ExportInit ==
    /\ now = 0
    /\ cfg \in {Cfg(1, 2, DateStr(-10), FALSE) @@ ("use_email_activity_export" :> TRUE),
                Cfg(1, 2, STAR, TRUE)}
    /\ config = TapConfig(cfg)
    /\ remote \in [lists : {<<"a">>},
                   campaigns : {<<"x", "y">>},
                   members : {[l \in {"a"} |-> <<"m2", "m1">>]},
                   activity : {[c \in {"x", "y"} |-> IF c = "x" THEN lines ELSE <<"m1">>] :
                                  lines \in {<<"m1", "error", "m2">>, <<"m1", "m2">>}}]
    /\ persisted = EmptyDict
    /\ state = TapState(EmptyDict, 0)
    /\ loaded = TapState(EmptyDict, 0)
    /\ pc = "next"
    /\ is_error = FALSE
    /\ sched = NewSched
    /\ stream = NoStream
    /\ iter = NoGenerator
    /\ record = Null
    /\ sink = <<>>
    /\ run = 1
    /\ scheduled = {}
    /\ attempted = {}
    /\ raised = {}
    /\ faults = 0
    /\ pag = NoPaginator
    /\ norm = NoCall

\* time passes, a minute at a time
TickMinute ==
    /\ ReadsClock
    /\ now + MinuteStep <= MaxClock
    /\ now' = now + MinuteStep
    /\ UNCHANGED <<cfg, config, remote, pag, norm, persisted, state, pc, is_error, sched, stream,
                   iter, record, sink, run, loaded, attempted, raised, faults, scheduled>>

ExportNext ==
    \/ TickMinute
    \/ PourEarlyStop
    \/ PourSkipDone
    \/ PourStartStream
    \/ PourLoopEnd
    \/ PourSchema
    \/ PourSchemaRaise
    \/ IterYield
    \/ IterRaise
    \/ IterExportError
    \/ PostPour
    \/ WriteRecord
    \/ WriteRaise
    \/ UpdateState
    \/ Restart

ExportSpec == ExportInit /\ [][ExportNext]_vars

\* ------------------------------------------------- processes that are killed
\* The pour loop once more, with a process that can be killed at any point
\* and the next one constructed from the last snapshot written; the output
\* sink keeps what the earlier processes wrote.  The members of list a are
\* read through the paginator, two a page.
CrashInit ==
    /\ now = 0
    /\ cfg = Cfg(0, 2, STAR, FALSE)
    /\ config = TapConfig(cfg)
    /\ remote = [lists |-> <<"a">>,
                 campaigns |-> <<>>,
                 members |-> [l \in {"a"} |-> ItemRecordIds],
                 activity |-> EmptyDict]
    /\ persisted = EmptyDict
    /\ state = TapState(EmptyDict, 0)
    /\ loaded = TapState(EmptyDict, 0)
    /\ pc = "next"
    /\ is_error = FALSE
    /\ sched = NewSched
    /\ stream = NoStream
    /\ iter = NoGenerator
    /\ record = Null
    /\ sink = <<>>
    /\ run = 1
    /\ scheduled = {}
    /\ attempted = {}
    /\ raised = {}
    /\ faults = 0
    /\ pag = NoPaginator
    /\ norm = NoCall

\* the process is killed, or has ended; main() constructs the next one from
\* the last snapshot written
Crash ==
    /\ run < MaxRuns
    /\ run' = run + 1
    /\ state' = TapState(persisted, now)
    /\ loaded' = TapState(persisted, now)
    /\ pc' = "next"
    /\ is_error' = FALSE
    /\ sched' = NewSched
    /\ stream' = NoStream
    /\ iter' = NoGenerator
    /\ record' = Null
    /\ scheduled' = {}
    /\ attempted' = {}
    /\ raised' = {}
    /\ UNCHANGED <<now, cfg, config, remote, pag, norm, persisted, faults, sink>>

CrashNext ==
    \/ TickMinute
    \/ PourSkipDone
    \/ PourStartStream
    \/ PourLoopEnd
    \/ PourSchema
    \/ PourSchemaRaise
    \/ IterYield
    \/ IterRaise
    \/ PostPour
    \/ WriteRecord
    \/ WriteRaise
    \/ UpdateState
    \/ Crash

CrashSpec == CrashInit /\ [][CrashNext]_vars

\* ------------------------------------------------------ shared vocabulary
ItemIds == ListIds \cup CampaignIds

AllStreams ==
    {RootStream(sid) : sid \in RootStreams}
        \cup {ItemStream(sid, id) : sid \in ItemStreams, id \in ItemIds}

\* the done flag of a stream or item as the bookmarks store it
DoneIn(b, st) ==
    IF st.stream_id \in ItemStreams
    THEN get_id_done(b, st.stream_id, st.item_id)
    ELSE get_done(b, st.stream_id)

\* the streams the chain of generators goes through, given the ids in b
Schedule(b) ==
    {RootStream(sid) : sid \in RootStreams}
        \cup UNION {{ItemStream(sid, id) : id \in get_ids(b, Parent(sid))} :
                        sid \in ItemStreams}

Running == {"pour_schema", "iter", "write", "update"}

GenIndex(stream_id) == CHOOSE i \in 1..Len(StreamGens) : StreamGens[i] = stream_id

\* number of RECORD messages of stream st carrying record r
Written(st, r) ==
    Cardinality({i \in DOMAIN sink :
                    /\ sink[i].type = "RECORD"
                    /\ sink[i].stream = st
                    /\ sink[i].record = r})

\* pour returned with the state finalized (bookmarks reset)
Finalized == pc = "returned" /\ ~is_error

\* ------------------------------------------------------------------ claims

\* C1: when a stream's run raises, pour catches the exception (it is recorded
\* in is_error and pour keeps running) and, when pour has gone through its
\* schedule without being stopped by the time budget, every stream of the
\* schedule was attempted or is done.
C1_CatchAndContinue ==
    /\ raised # {} => is_error /\ pc \in Running \cup {"next", "stopped", "returned"}
    /\ (pc = "returned" /\ raised # {}) =>
          \A st \in Schedule(state.bookmarks) :
              st \in attempted \/ DoneIn(state.bookmarks, st)

C1_Witness ==
    /\ pc = "returned"
    /\ RootStream(lists) \in raised
    /\ ItemStream(list_members, "a") \in attempted
    /\ RootStream(campaigns) \in attempted

\* C2: when pour returns after a stream raised, last_run and current_run are
\* the values the process was constructed with, the bookmarks are kept (every
\* stream that completed is still marked done) and the last snapshot written
\* shows these values; a state finalized by pour implies that no stream raised.
C2_FinalizeOnlyWhenClean ==
    /\ (pc = "returned" /\ raised # {}) =>
          /\ state.last_run = loaded.last_run
          /\ state.current_run = loaded.current_run
          /\ \A st \in attempted \ raised : DoneIn(state.bookmarks, st)
          /\ persisted.last_run = Serialized(loaded.last_run)
          /\ persisted.current_run = Serialized(loaded.current_run)
          /\ persisted.bookmarks = state.bookmarks
    /\ (pc = "returned" /\ state.last_run # loaded.last_run) => raised = {}

C2_Witness ==
    /\ pc = "returned"
    /\ raised # {}
    /\ attempted \ raised # {}
    /\ loaded.current_run # loaded.last_run

\* C3: every process starts with a non-null current_run, and a clean
\* completion sets last_run to that value.
C3_CurrentRunAtStart ==
    /\ loaded.current_run.kind = "datetime"
    /\ Finalized => state.last_run = loaded.current_run

\* C4: when pour returns after a stream raised, at the end of the schedule or
\* on the time budget, the last persisted snapshot holds the bookmarks (ids,
\* count, done) of the state in memory.
C4_FlushedAfterFailure ==
    (pc \in {"returned", "stopped"} /\ raised # {})
        => DictGet(persisted, "bookmarks", EmptyDict) = state.bookmarks

\* C5: the time budget is looked at only when the chain has yielded the next
\* stream: if it is exceeded there, pour stops without touching the state, the
\* snapshot, the error flag or the output; pour stops nowhere else; no stream
\* is started once the budget is exceeded; and a stream that has started
\* leaves the loop body only done or raised.
C5_BudgetBetweenStreams ==
    [][/\ (pc = "next" /\ check_stop(state) /\ now' = now
              /\ Yields(sched, state.bookmarks) # {})
            => /\ pc' = "stopped"
               /\ state' = state
               /\ persisted' = persisted
               /\ is_error' = is_error
               /\ attempted' = attempted
               /\ sink' = sink
       /\ (pc' = "stopped" /\ pc # "stopped") => (pc = "next" /\ check_stop(state))
       /\ (attempted' # attempted /\ run' = run) => ~check_stop(state)
       /\ pc \in Running =>
             \/ pc' \in Running
             \/ pc' = "next" /\ (DoneIn(state'.bookmarks, stream) \/ stream \in raised')
       /\ pc = "stopped" => (pc' = "stopped" /\ state' = state) \/ run' = run + 1
      ]_vars

C5_Witness ==
    /\ pc = "stopped"
    /\ attempted # {}
    /\ ~is_error
    /\ state.last_run = loaded.last_run

\* C6: the chain goes through lists, campaigns, list_members,
\* email_activity_reports in this order; an item stream is yielded only for an
\* id of its parent's ids; and once the chain has reached an item generator,
\* every id of the parent's ids (persisted or added by this process) has been
\* yielded or is still pending in that generator.
C6_DependencyOrder ==
    /\ \A st \in scheduled : GenIndex(st.stream_id) <= sched.gen
    /\ \A i \in 1..Len(StreamGens) :
          (i < sched.gen /\ StreamGens[i] \in RootStreams)
              => RootStream(StreamGens[i]) \in scheduled
    /\ ~Finalized =>
          /\ \A st \in scheduled :
                IsItem(st) => st.item_id \in get_ids(state.bookmarks, Parent(st.stream_id))
          /\ \A i \in 1..Len(StreamGens) :
                (StreamGens[i] \in ItemStreams
                    /\ (sched.gen > i \/ (sched.gen = i /\ sched.started)))
                => \A id \in get_ids(state.bookmarks, Parent(StreamGens[i])) :
                      \/ ItemStream(StreamGens[i], id) \in scheduled
                      \/ sched.gen = i /\ id \in sched.pending

C6_Witness ==
    /\ ItemStream(list_members, "b") \in attempted
    /\ "b" \notin get_ids(loaded.bookmarks, lists)
    /\ ItemStream(email_activity_reports, "x") \in attempted
    /\ sched.gen = 4

\* C7: while an item stream runs for parent item A, the offset entry of every
\* other item of that stream and the bookmarks of the other streams are left
\* as they are, and when A's run raises the pour loop goes on with the chain
\* at the position it had, so that the remaining items are still yielded.
C7_ItemIsolation ==
    [][(pc \in Running /\ IsItem(stream)) =>
          /\ \A B \in ItemIds \ {stream.item_id} :
                get_id_offset(state'.bookmarks, stream.stream_id, B, EmptyDict)
                    = get_id_offset(state.bookmarks, stream.stream_id, B, EmptyDict)
          /\ \A sid \in (RootStreams \cup ItemStreams) \ {stream.stream_id} :
                DictGet(state'.bookmarks, sid, EmptyDict)
                    = DictGet(state.bookmarks, sid, EmptyDict)
          /\ raised' # raised => pc' = "next" /\ sched' = sched
      ]_vars

C7_Witness ==
    /\ ItemStream(list_members, "a") \in raised
    /\ get_id_count(state.bookmarks, list_members, "a") > 0
    /\ ~get_id_done(state.bookmarks, list_members, "a")
    /\ ItemStream(list_members, "b") \in attempted
    /\ get_id_done(state.bookmarks, list_members, "b")

\* C8: when the campaigns stream has run with both filters, every campaign id
\* was written to the output sink exactly once, is in ids, and the count
\* stored for the stream is the number of ids.
C8_DualFilterWrittenOnce ==
    (/\ RootStream(campaigns) \in attempted
     /\ lag_date(loaded).kind # "none"
     /\ get_done(state.bookmarks, campaigns))
    => /\ \A c \in get_ids(state.bookmarks, campaigns) :
            Written(RootStream(campaigns), c) = 1
       /\ get_bookmark(state.bookmarks, campaigns, "count", 0)
            = Cardinality(get_ids(state.bookmarks, campaigns))

\* C9: a stream or item that is marked done in the state a process is
\* constructed from is never run by that process: no schema and no record of
\* it reaches the output sink.
C9_DoneIsSkipped ==
    \A st \in AllStreams :
        DoneIn(loaded.bookmarks, st) =>
            /\ st \notin attempted
            /\ \A i \in DOMAIN sink : sink[i].stream # st

C9_Witness ==
    /\ run = 2
    /\ pc = "returned"
    /\ DoneIn(loaded.bookmarks, RootStream(lists))
    /\ DoneIn(loaded.bookmarks, ItemStream(list_members, "a"))
    /\ RootStream(lists) \in scheduled
    /\ ItemStream(list_members, "a") \in scheduled
    /\ sink # <<>>

\* C10: while a root stream is in progress, between two records, get_count of
\* the stream equals the number of ids in its ids set.
C10_CountIsNumberOfIds ==
    (pc = "iter" /\ stream.stream_id \in RootStreams) =>
        get_count(state.bookmarks, stream.stream_id)
            = Cardinality(get_ids(state.bookmarks, stream.stream_id))

\* C11: a root stream whose bookmark has done = true has an empty offset and
\* no in-progress count left in its bookmark, and a parent item marked done has
\* only done = true in its offset entry (no count).
C11_DoneHasNoOffset ==
    /\ \A sid \in RootStreams :
          get_done(state.bookmarks, sid) =>
              /\ get_offset(state.bookmarks, sid, EmptyDict) = EmptyDict
              /\ "count" \notin DOMAIN DictGet(state.bookmarks, sid, EmptyDict)
    /\ \A sid \in ItemStreams : \A id \in ItemIds :
          get_id_done(state.bookmarks, sid, id) =>
              get_id_offset(state.bookmarks, sid, id, EmptyDict)
                  = DictSet(EmptyDict, "done", TRUE)

\* C12: inside one process, until pour finalizes the run, every step leaves
\* the ids of each root stream a superset of what they were; the ids a process
\* is constructed with (resumption) are kept as well.
C12_IdsOnlyGrow ==
    [][(run' = run /\ ~(pc = "next" /\ pc' = "returned" /\ ~is_error)) =>
          \A sid \in RootStreams :
              get_ids(state.bookmarks, sid) \subseteq get_ids(state'.bookmarks, sid)
      ]_vars

C12_Witness ==
    /\ run = 2
    /\ get_ids(loaded.bookmarks, lists) = {"a"}
    /\ get_ids(state.bookmarks, lists) = {"a", "b"}
    /\ raised = {}

\* ------------------------------------------------------ paginator claims
IsPrefix(s, t) == Len(s) <= Len(t) /\ s = SubSeq(t, 1, Len(s))

Ceil(a, b) == (a + b - 1) \div b

\* the remote reports the size of its collection
Consistent == pag.reported = Len(pag.items)

\* C13: against a collection that does not change, a paginator started at
\* offset 0 yields the items of the collection in order, none twice, and when
\* it is exhausted it has yielded every one of the T items.
C13_YieldsEachItemOnce ==
    (pag.variant # "none" /\ pag.start = 0 /\ Consistent) =>
        /\ IsPrefix(pag.yielded, pag.items)
        /\ pag.pc = "done" => pag.yielded = pag.items

C13_Witness ==
    /\ pag.variant = "iter_items"
    /\ pag.pc = "done"
    /\ pag.start = 0
    /\ Consistent
    /\ Len(pag.yielded) = 3
    /\ config.count = 2

\* the page fetches among the calls made so far
PageFetches == SelectSeq(pag.calls, LAMBDA c : c.kind = "page")

\* C14: with no fetch failure, a paginator started at offset 0 that is
\* exhausted has made exactly ceil(T/P) page fetches of the remote listing.
C14_ExactlyCeilFetches ==
    (pag.pc = "done" /\ pag.start = 0 /\ Consistent /\ pag.failures = 0) =>
        Len(PageFetches) = Ceil(Len(pag.items), config.count)

\* C15: no page is fetched once the running offset has reached the total
\* reported earlier, and a page that returns zero items is the last call.
C15_StopsAtTotalOrEmptyPage ==
    \A i \in DOMAIN pag.calls :
        LET c == pag.calls[i]
        IN c.kind = "page" =>
              /\ c.known # -1 => c.offset < c.known
              /\ (c.ok /\ c.n = 0) => i = Len(pag.calls)

\* C16: a page fetch is attempted at most MAX_RETRIES times; a failure of
\* attempt k < MAX_RETRIES is followed by a sleep of 2^k seconds and attempt
\* k + 1 at the same offset; the failure of attempt MAX_RETRIES is raised to
\* the caller; the first attempt of every page has number 1.
C16_RetriesWithBackoff ==
    \A i \in DOMAIN pag.calls :
        LET c == pag.calls[i]
        IN c.kind = "page" =>
              /\ c.attempt <= MAX_RETRIES
              /\ (~c.ok /\ c.attempt < MAX_RETRIES) =>
                    /\ c.slept = 2 ^ c.attempt
                    /\ IF i = Len(pag.calls)
                       THEN pag.pc = "fetch"
                       ELSE /\ pag.calls[i + 1].offset = c.offset
                            /\ pag.calls[i + 1].attempt = c.attempt + 1
              /\ (~c.ok /\ c.attempt = MAX_RETRIES) =>
                    i = Len(pag.calls) /\ pag.pc = "raised"
              /\ (i = 1 \/ pag.calls[i - 1].ok) => c.attempt = 1

\* ---------------------------------------------------------- further claims

\* C17: the state is written, whatever the throttle says, when a stream run
\* starts (the snapshot shows the stream as currently_syncing) and when a
\* stream run or a parent item finishes (the snapshot shows it done).
C17_ForcedWrites ==
    /\ pc = "pour_schema" => persisted = Snapshot(state)
    /\ (pc = "next" /\ stream \in attempted \ raised) => persisted = Snapshot(state)

\* C18: when pour returns from a run in which no stream raised and the budget
\* was not exceeded, the last snapshot written is the one of the finalized
\* state: last_run is the serialized current_run the process ran with,
\* current_run and currently_syncing are null, the bookmarks are empty; it is
\* the snapshot of the state in memory, written throttle or not.
C18_CleanRunSnapshot ==
    Finalized =>
        /\ persisted = [last_run |-> Serialized(loaded.current_run),
                        current_run |-> NONE,
                        currently_syncing |-> Null,
                        bookmarks |-> EmptyDict]
        /\ persisted = Snapshot(state)

C18_Witness ==
    /\ Finalized
    /\ loaded.current_run.kind = "datetime"
    /\ persisted.last_run = isoformat(loaded.current_run)
    /\ ItemStream(list_members, "a") \in attempted
    /\ state.last_sync_state = now


\* C19: when an item stream starts for an item, from whatever bookmark (fresh
\* or resumed with a persisted count), the bulk-export strategy and the
\* paginated strategy yield the same sequence of records (hence, one count
\* update per record, the same sequence of count / done values).
C19_ExportEqualsPaginator ==
    (pc = "pour_schema" /\ IsItem(stream)) =>
        Drain(export_records(stream)) = Drain(api_records(stream, state))

\* C20: while a process runs, the watermark start is the last_run the state
\* was constructed with whenever there is one, whatever current_run and the
\* configured start_date are; otherwise it is the configured start_date, and
\* no start (None) when the config file has no start_date, '' or '*'.
C20_WatermarkStart ==
    pc \in Running \cup {"next"} =>
        /\ state.last_run = loaded.last_run
        /\ start_date(state) =
              IF loaded.last_run.kind = "datetime"
              THEN loaded.last_run
              ELSE IF cfg.start_date \in {ABSENT, EMPTY, STAR}
              THEN NONE
              ELSE Datetime(cfg.start_date.t)

C20_Witness ==
    /\ run = 2
    /\ pc = "iter"
    /\ stream = RootStream(campaigns)
    /\ loaded.last_run = Datetime(0)
    /\ loaded.current_run # loaded.last_run
    /\ cfg.start_date = DateStr(-10)
    /\ start_date(state) = Datetime(0)

\* the watermark start, read from the state and the configuration
WatermarkStart ==
    IF state.last_run.kind # "none" THEN state.last_run ELSE config.start_date

CreatedSince(t) ==
    SelectSeq(remote.campaigns, LAMBDA c : CampaignTimes[c].create_time >= t)

SentSince(t) ==
    SelectSeq(remote.campaigns, LAMBDA c : CampaignTimes[c].send_time >= t)

\* C22: with a watermark start the campaigns stream asks for two listings,
\* one with since_create_time = start and one with since_send_time = start
\* minus the lag, and yields all the results of the first followed by all the
\* results of the second; without a start it asks for one unfiltered listing.
C22_CampaignListings ==
    norm.op = "campaigns" =>
        IF WatermarkStart.kind = "none"
        THEN /\ norm.arg = <<EmptyDict>>
             /\ norm.out = remote.campaigns
        ELSE LET lag_start == Datetime(WatermarkStart.t - config.lag * 86400)
             IN /\ Len(norm.arg) = 2
                /\ norm.arg[1] = ("since_create_time" :> isoformat(WatermarkStart))
                /\ norm.arg[2] = ("since_send_time" :> isoformat(lag_start))
                /\ norm.out = CreatedSince(WatermarkStart.t) \o SentSince(lag_start.t)

C22_Witness ==
    /\ norm.op = "campaigns"
    /\ Len(norm.arg) = 2
    /\ norm.out = <<"x", "y", "x">>

\* C23: every record written to the output sink holds the primary key of its
\* stream, id for list_members and both campaign_id and email_id for
\* email_activity_reports, whatever line the export or the listing returned
\* (an activity-export object with no keys included).
C23_PrimaryKey ==
    /\ (norm.op \in {"list_export", "write_member"} /\ norm.written.ok)
          => "id" \in DOMAIN norm.written.value
    /\ (norm.op = "activity_export" /\ norm.written.ok)
          => {"campaign_id", "email_id"} \subseteq DOMAIN norm.written.value

\* the rename table of list a: the entries of the static table and of the
\* merge fields that name a v3 path
RenameTable ==
    SelectSeq(WithMergeFields(LIST_EXPORT_V1_TO_API_V3, MergeFields("a")),
              LAMBDA e : e.coerce # "None")

\* the paths of the values of a normalized member
OutputPaths(v) ==
    {<<k>> : k \in DOMAIN v \ {"location", "merge_fields"}}
    \cup UNION {{<<k, j>> : j \in DOMAIN v[k]} :
                   k \in {"location", "merge_fields"} \cap DOMAIN v}

\* C24: a row of the member export is normalized with the rename table only:
\* no output key is a legacy column name that the table lacks or maps to
\* None, every output key besides id, list_id and status is the v3 path of a
\* table entry, and a column whose value is null or the empty string produces
\* no output key.
C24_RenameTableOnly ==
    (norm.op = "list_export" /\ norm.out.ok) =>
        LET row == norm.arg
            v == norm.out.value
            mapped == {RenameTable[i].key : i \in DOMAIN RenameTable}
        IN /\ \A p \in OutputPaths(v) : \A i \in DOMAIN p :
                 p[i] \notin DOMAIN row \ mapped
           /\ \A p \in OutputPaths(v) \ {<<"id">>, <<"list_id">>, <<"status">>} :
                 \E i \in DOMAIN RenameTable : RenameTable[i].v3_key = p
           /\ \A i \in DOMAIN RenameTable :
                 IsBlank(DictGet(row, RenameTable[i].key, PyNone))
                    => RenameTable[i].v3_key \notin OutputPaths(v)

C24_Witness ==
    /\ norm.op = "list_export"
    /\ norm.out.ok
    /\ norm.arg["LEID"] = Str("1")
    /\ norm.arg["FOO"] = Str("z")
    /\ norm.arg["CONFIRM_TIME"] = Str("")
    /\ norm.arg["Age"] = Str("7")
    /\ OutputPaths(norm.out.value) =
          {<<"id">>, <<"list_id">>, <<"status">>, <<"email_address">>,
           <<"location", "country_code">>, <<"merge_fields", "FNAME">>,
           <<"merge_fields", "AGE">>}

\* C25: the pseudonymous id of an address depends on the lower-cased address
\* only: addresses that are equal after lower-casing get the same id, which is
\* the MD5 hex digest of the lower-cased address.
C25_EmailId ==
    /\ norm.op = "email_id" =>
          /\ norm.out = Str(MD5(LowerCase[norm.arg.text]))
          /\ \A b \in DOMAIN LowerCase :
                LowerCase[b] = LowerCase[norm.arg.text]
                   => mailchimp_email_id(Str(b)) = norm.out
    /\ (norm.op = "list_export" /\ norm.out.ok) =>
          norm.out.value["id"] = Str(MD5(LowerCase[norm.arg["Email Address"].text]))

C25_Witness ==
    /\ norm.op = "email_id"
    /\ norm.arg = Str("Foo@Bar.com")
    /\ norm.out = Str("md5:foo@bar.com")

\* what date-time coercion makes of a timestamp that can be parsed
Coerced(dt) == Stamp("iso", dt.n, IF dt.tz = "" THEN "+00:00" ELSE dt.tz)

\* the timestamps of a normalized record agree with their source values
DateFields(source, normalized, fields) ==
    \A f \in DOMAIN fields :
        IF IsBlank(DictGet(source, f, PyNone))
        THEN fields[f] \notin DOMAIN normalized
        ELSE normalized[fields[f]] = Coerced(source[f])

\* C26: date-time coercion turns a timestamp without a timezone into the
\* ISO-8601 form with the offset +00:00, leaves a timestamp with a timezone
\* its own offset, and for None or the empty string leaves the field out of
\* the normalized record, neither empty nor null.
C26_DateCoercion ==
    /\ (norm.op = "datify" /\ norm.arg.type = "stamp") =>
          /\ norm.out.ok
          /\ norm.out.value.fmt = "iso"
          /\ norm.out.value.n = norm.arg.n
          /\ norm.out.value.tz = (IF norm.arg.tz = "" THEN "+00:00" ELSE norm.arg.tz)
    /\ (norm.op = "list_export" /\ norm.out.ok) =>
          DateFields(norm.arg, norm.written.value, "CONFIRM_TIME" :> "timestamp_opt")
    /\ (norm.op = "activity_export" /\ norm.written.ok
           /\ "activity" \in DOMAIN norm.written.value) =>
          LET email == CHOOSE e \in DOMAIN norm.arg.d : TRUE
          IN \A i \in DOMAIN norm.written.value.activity :
                DateFields(norm.arg.d[email].items[i], norm.written.value.activity[i],
                           "timestamp" :> "timestamp")

\* the catalog entry of list a for a tag
CatalogEntry(tag) ==
    MergeFields("a")[CHOOSE i \in DOMAIN MergeFields("a") : MergeFields("a")[i].tag = tag]

\* the merge_fields array of a written member holds one object for each tag
\* of the record's mapping, built from the catalog and from val(the value)
Flattened(rec, written, val(_)) ==
    LET mf == DictGet(rec, "merge_fields", EmptyDict)
        arr == written["merge_fields"]
    IN /\ Len(arr) = Cardinality(DOMAIN mf)
       /\ \A tag \in DOMAIN mf :
             \E i \in DOMAIN arr :
                arr[i] = [merge_id |-> Num(CatalogEntry(tag).merge_id),
                          tag |-> Str(tag),
                          name |-> Str(CatalogEntry(tag).name),
                          type |-> Str(CatalogEntry(tag).type),
                          value |-> val(mf[tag])]

WrittenFlattened ==
    /\ norm.op \in {"write_member", "list_export"}
    /\ config.merge_fields_array
    /\ norm.out.ok
    /\ norm.written.ok

\* C27: with merge-field flattening configured, a member whose merge_fields
\* mapping is {tag: value, ...} is written with merge_fields as an array
\* holding, for each tag, exactly one object {merge_id, tag, name, type,
\* value} whose merge_id, name and type are the catalog's for that tag and
\* whose value is the record's value; a member without merge fields is written
\* with an empty array.
C27_MergeFieldValues ==
    WrittenFlattened =>
        Flattened(norm.out.value, norm.written.value, LAMBDA v : v)

\* C27 (amended): as above, the value of each object being the string form,
\* str(value), of the record's value.
C27_MergeFieldStrings ==
    WrittenFlattened =>
        Flattened(norm.out.value, norm.written.value,
                  LAMBDA v : CASE v.type = "num" -> Str(ToString(v.n))
                               [] v.type = "null" -> Str("None")
                               [] OTHER -> v)

C27_Witness ==
    /\ norm.op = "write_member"
    /\ config.merge_fields_array
    /\ norm.written.ok
    /\ DictGet(norm.arg, "merge_fields", EmptyDict)
          = ("FNAME" :> Str("Jane")) @@ ("AGE" :> Num(7))
    /\ Len(norm.written.value["merge_fields"]) = 2
    /\ norm.written.value["merge_fields"][2].value = Str("7")

\* C28: in every run of a stream or item the schema declaration of the stream
\* is written to the sink before the first record of that run, and no record
\* of a stream is written before a schema declaration for it.
C28_SchemaBeforeRecords ==
    \A i \in DOMAIN sink :
        sink[i].type = "RECORD" =>
            \E j \in 1..(i - 1) :
                /\ sink[j].type = "SCHEMA"
                /\ sink[j].stream = sink[i].stream
                /\ \A k \in (j + 1)..(i - 1) :
                      sink[k].type = "RECORD" /\ sink[k].stream = sink[i].stream

C28_Witness ==
    /\ Len(sink) >= 3
    /\ sink[Len(sink) - 2].type = "SCHEMA"
    /\ sink[Len(sink) - 1].type = "RECORD"
    /\ sink[Len(sink)].type = "RECORD"
    /\ sink[Len(sink)].stream = ItemStream(list_members, "a")

\* number of RECORD messages of stream st
WrittenOf(st) ==
    Cardinality({i \in DOMAIN sink : sink[i].type = "RECORD" /\ sink[i].stream = st})

\* the ids and counts of the bookmarks b stand for records this process has
\* written or for what the process was started with
Accounted(b) ==
    /\ \A sid \in RootStreams :
          /\ \A id \in get_ids(b, sid) :
                id \in get_ids(loaded.bookmarks, sid) \/ Written(RootStream(sid), id) >= 1
          /\ get_bookmark(b, sid, "count", 0) <= Cardinality(get_ids(b, sid))
    /\ \A sid \in ItemStreams : \A id \in ItemIds :
          get_id_count(b, sid, id)
             <= get_id_count(loaded.bookmarks, sid, id) + WrittenOf(ItemStream(sid, id))

\* C29: for each record the order is: write it to the sink, update the
\* ids / count state, then the conditional flush; so neither the state nor a
\* persisted snapshot accounts, in ids or count, for a record that has not
\* been written to the sink.
C29_WrittenBeforeCounted ==
    /\ pc = "update" =>
          /\ Len(sink) > 0
          /\ sink[Len(sink)] = [type |-> "RECORD", stream |-> stream, record |-> record]
    /\ Accounted(state.bookmarks)
    /\ \/ DictGet(persisted, "bookmarks", EmptyDict) = state.bookmarks
       \/ Accounted(DictGet(persisted, "bookmarks", EmptyDict))

C29_Witness ==
    /\ run = 1
    /\ pc = "iter"
    /\ stream = ItemStream(list_members, "a")
    /\ get_id_count(DictGet(persisted, "bookmarks", EmptyDict), list_members, "a") = 1
    /\ WrittenOf(stream) = 1

\* C30: when a stream or item run raises (schema fetch, page or export fetch,
\* normalization of a record) the stream or item is not marked done and the
\* ids / count recorded before the error stay in the state.
C30_RaiseKeepsProgress ==
    /\ [](\A st \in raised : ~DoneIn(state.bookmarks, st))
    /\ [][faults' # faults =>
             /\ stream \in raised'
             /\ state' = state
             /\ persisted' = persisted]_vars

C30_Witness ==
    /\ ItemStream(list_members, "a") \in raised
    /\ get_id_count(state.bookmarks, list_members, "a") = 1
    /\ ~get_id_done(state.bookmarks, list_members, "a")
    /\ WrittenOf(ItemStream(list_members, "a")) = 1

\* ------------------------------------------------------ the last claims
\* the records of stream st among the RECORD messages of the sink, in order
WrittenSeq(st) ==
    LET msgs == SelectSeq(sink, LAMBDA m : m.type = "RECORD" /\ m.stream = st)
    IN [i \in DOMAIN msgs |-> msgs[i].record]

\* the lines of an export response that come before its first error object
BeforeError(lines) ==
    IF \E i \in DOMAIN lines : lines[i] = "error"
    THEN SubSeq(lines, 1, (CHOOSE i \in DOMAIN lines :
                              /\ lines[i] = "error"
                              /\ \A j \in 1..(i - 1) : lines[j] # "error") - 1)
    ELSE lines

HasError(lines) == \E i \in DOMAIN lines : lines[i] = "error"

Activity_(c) == ItemStream(email_activity_reports, c)

\* C31: when the activity export answers with an error object for a campaign,
\* SubscriberActivityExportError is raised with the remote error and code and
\* with campaign_id, list_id and since; neither that line nor a later line of
\* the campaign is written; the campaign is not marked done, in memory or in a
\* snapshot; and when pour returns, the other campaigns have been run.
C31_ExportErrorStopsCampaign ==
    /\ [](\A c \in DOMAIN remote.activity :
             /\ IsPrefix(WrittenSeq(Activity_(c)), BeforeError(remote.activity[c]))
             /\ HasError(remote.activity[c]) =>
                   /\ ~DoneIn(state.bookmarks, Activity_(c))
                   /\ ~DoneIn(DictGet(persisted, "bookmarks", EmptyDict), Activity_(c))
             /\ (pc = "returned" /\ \E e \in DOMAIN remote.activity : Activity_(e) \in raised)
                   => \A d \in get_ids(state.bookmarks, campaigns) :
                         \/ Activity_(d) \in attempted
                         \/ DoneIn(loaded.bookmarks, Activity_(d)))
    /\ [][(/\ pc = "iter"
           /\ stream.stream_id = email_activity_reports
           /\ ~Pull(iter).done
           /\ Pull(iter).rec = "error"
           /\ faults' = faults
           /\ run' = run)
          => /\ norm'.out.ok = FALSE
             /\ norm'.out.error = "SubscriberActivityExportError"
             /\ norm'.out.value =
                   Obj([error |-> Str("Invalid campaign"),
                        code |-> Num(300),
                        campaign_id |-> Str(stream.item_id),
                        list_id |-> Str("a"),
                        since |-> IF WatermarkStart.kind = "none"
                                  THEN PyNone
                                  ELSE Stamp("plain", WatermarkStart.t, "")])
             /\ stream \in raised'
             /\ is_error'
             /\ pc' = "next"
             /\ sched' = sched
             /\ sink' = sink
             /\ state' = state
             /\ persisted' = persisted]_vars

C31_Witness ==
    /\ pc = "returned"
    /\ Activity_("x") \in raised
    /\ norm.op = "activity_export"
    /\ norm.out.value.d.since = Stamp("plain", -10, "")
    /\ WrittenSeq(Activity_("x")) = <<"m1">>
    /\ WrittenSeq(Activity_("y")) = <<"m1">>
    /\ sink[Len(sink)].stream = Activity_("y")
    /\ DoneIn(state.bookmarks, Activity_("y"))

\* C32: the sync after a record writes the state exactly when more than 60
\* seconds have passed since the last write of the state, forced or not (since
\* the construction of the state when the process has not written yet); the
\* forced syncs of post_pour and of the end of pour always write; and every
\* write restarts the interval, which nothing else does.  Hence two writes in
\* a row made after records are more than 60 seconds apart.
C32_ThrottledSync ==
    [][run' = run =>
          /\ (pc = "update" /\ pc' # "update") =>
                IF now - state.last_sync_state > 60
                THEN persisted' = Snapshot(state') /\ state'.last_sync_state = now
                ELSE /\ persisted' = persisted
                     /\ state'.last_sync_state = state.last_sync_state
          /\ (pc = "iter" /\ pc' = "next" /\ stream \notin raised') =>
                persisted' = Snapshot(state') /\ state'.last_sync_state = now
          /\ (pc = "next" /\ pc' = "returned") =>
                persisted' = Snapshot(state') /\ state'.last_sync_state = now
          /\ (persisted' # persisted \/ state'.last_sync_state # state.last_sync_state) =>
                /\ persisted' = Snapshot(state')
                /\ state'.last_sync_state = now
                /\ now' = now
      ]_vars

C32_Witness ==
    /\ pc = "iter"
    /\ stream = ItemStream(list_members, "a")
    /\ state.current_session = 0
    /\ now = 120
    /\ state.last_sync_state = 120
    /\ get_id_count(state.bookmarks, list_members, "a") = 2
    /\ persisted = Snapshot(state)

\* what the retrieval strategy of stream st produces in this process
Produced(st) == Drain(iter_records(st, loaded))

\* the members of list l with one status, in the order of the remote
WithStatus(l, status) ==
    SelectSeq(remote.members[l], LAMBDA m : MemberStatus(m) = status)

\* C33: in the run of a stream or item, the records written to the sink are
\* the records its retrieval strategy produces, in their order: at every point
\* of the run the records written, the record in hand and the records still to
\* come make up the produced sequence, and they are all written when the run
\* completes; on the member export path the produced sequence is the
\* subscribed rows, then the unsubscribed rows, then the cleaned rows.
C33_WrittenInProducedOrder ==
    \A st \in attempted :
        /\ IsPrefix(WrittenSeq(st), Produced(st))
        /\ (stream = st /\ pc \in {"iter", "write", "update"}) =>
              WrittenSeq(st) \o (IF pc = "write" THEN <<record>> ELSE <<>>) \o Drain(iter)
                 = Produced(st)
        /\ (st \notin raised /\ ~(stream = st /\ pc \in Running)) =>
              WrittenSeq(st) = Produced(st)
        /\ (st.stream_id = list_members /\ config.use_list_member_export) =>
              Produced(st) = WithStatus(st.item_id, "subscribed")
                                \o WithStatus(st.item_id, "unsubscribed")
                                \o WithStatus(st.item_id, "cleaned")

C33_Witness ==
    /\ pc = "next"
    /\ config.use_list_member_export
    /\ ItemStream(list_members, "a") \in attempted \ raised
    /\ remote.members["a"] = <<"m2", "m1">>
    /\ WrittenSeq(ItemStream(list_members, "a")) = <<"m1", "m2">>
    /\ WrittenSeq(RootStream(campaigns)) = <<"x", "y">>

\* C34: the count of a root stream is kept in the stream's offset mapping and
\* comes back through get_count: when a root stream starts, the offset it
\* logs and hands to the paginator is the count the bookmark it was loaded
\* with holds, and no count is kept outside the offset mapping.
C34_CountRoundTrip ==
    /\ (pc = "pour_schema" /\ stream.stream_id \in RootStreams) =>
           Offset(stream, state)
              = Cardinality(get_ids(loaded.bookmarks, stream.stream_id))
    /\ \A sid \in RootStreams :
           "count" \notin DOMAIN DictGet(state.bookmarks, sid, EmptyDict)

\* the process was constructed from the snapshot of a finalized state
AfterCleanRun ==
    /\ loaded.last_run.kind = "datetime"
    /\ loaded.bookmarks = EmptyDict
    /\ loaded.currently_syncing = Null

\* C35: in a process constructed from a snapshot that holds a last_run, the
\* last_run of the state and of every snapshot written is a time not before
\* that one, never null; and when the process follows a clean run and
\* completes cleanly itself, last_run is the time the process started.
C35_LastRunNeverLost ==
    /\ loaded.last_run.kind = "datetime" =>
          /\ state.last_run.kind = "datetime"
          /\ state.last_run.t >= loaded.last_run.t
          /\ persisted.last_run.kind = "str"
          /\ persisted.last_run.t >= loaded.last_run.t
    /\ (AfterCleanRun /\ Finalized) =>
          state.last_run = Datetime(loaded.current_session)

\* both root streams and every item of their ids are marked done in b
AllDone(b) ==
    /\ get_done(b, lists)
    /\ get_done(b, campaigns)
    /\ \A id \in get_ids(b, lists) : get_id_done(b, list_members, id)
    /\ \A id \in get_ids(b, campaigns) : get_id_done(b, email_activity_reports, id)

LastRunOf(snapshot) == DictGet(snapshot, "last_run", NONE)

\* C36: pour finalizes the run only in a state where both root streams are
\* done and every id of the ids of lists and of campaigns has its
\* list_members / email_activity_reports item marked done; inside a process
\* last_run changes and the bookmarks are emptied, in memory or in the
\* snapshot, in that step only, so a run that leaves an item not done does
\* neither.
C36_FinalizeOnlyWhenAllDone ==
    [][run' = run =>
          /\ (pc = "next" /\ pc' = "returned" /\ ~is_error) => AllDone(state.bookmarks)
          /\ (\/ state'.last_run # state.last_run
              \/ LastRunOf(persisted') # LastRunOf(persisted)
              \/ state.bookmarks # EmptyDict /\ state'.bookmarks = EmptyDict
              \/ /\ DictGet(persisted, "bookmarks", EmptyDict) # EmptyDict
                 /\ DictGet(persisted', "bookmarks", EmptyDict) = EmptyDict)
             => /\ pc = "next" /\ pc' = "returned" /\ ~is_error
                /\ AllDone(state.bookmarks)
      ]_vars

C36_Witness ==
    /\ Finalized
    /\ ItemStream(list_members, "a") \in attempted
    /\ Activity_("x") \in attempted
    /\ Activity_("y") \in attempted
    /\ state.last_run = loaded.current_run
    /\ state.last_run.kind = "datetime"
    /\ persisted.bookmarks = EmptyDict

\* every member the remote lists for l is among the records written for l
AllWritten(l) ==
    \A i \in DOMAIN remote.members[l] :
        \E j \in DOMAIN sink :
            sink[j] = [type |-> "RECORD", stream |-> ItemStream(list_members, l),
                       record |-> remote.members[l][i]]

\* C37: with the members of a list read through the paginator from a remote
\* that does not change, whatever fetches raised and wherever processes were
\* killed and started again from the last snapshot, once the item is marked
\* done, in memory or in a snapshot, every member of the list has been
\* written to the sink at least once.
C37_DoneMeansAllWritten ==
    \A l \in DOMAIN remote.members :
        (\/ get_id_done(state.bookmarks, list_members, l)
         \/ get_id_done(DictGet(persisted, "bookmarks", EmptyDict), list_members, l))
        => AllWritten(l)

C37_Witness ==
    /\ run = 2
    /\ faults = 1
    /\ get_id_count(loaded.bookmarks, list_members, "a") = 1
    /\ get_id_done(state.bookmarks, list_members, "a")
    /\ WrittenSeq(ItemStream(list_members, "a")) = <<"m1", "m2", "m2", "m3">>

\* C38: when the watermark start is defined, the calls the list_members
\* stream makes to fetch the members of a list carry it on both retrieval
\* strategies: every export call is given it as since and posts it, and the
\* paginated listing is given it as since_last_changed.
C38_MembersSinceWatermark ==
    (norm.op = "list_member_calls" /\ WatermarkStart.kind # "none") =>
        \A i \in DOMAIN norm.arg :
            IF config.use_list_member_export
            THEN /\ norm.arg[i].api = "list_export"
                 /\ "since" \in DOMAIN norm.arg[i].kwargs
                 /\ norm.arg[i].kwargs.since = WatermarkStart
                 /\ "since" \in DOMAIN norm.arg[i].request
                 /\ norm.arg[i].request.since = Stamp("plain", WatermarkStart.t, "")
            ELSE /\ norm.arg[i].api = "lists.members"
                 /\ "since_last_changed" \in DOMAIN norm.arg[i].kwargs
                 /\ norm.arg[i].kwargs.since_last_changed = isoformat(WatermarkStart)

====
